---- MODULE Spec2Model ----
(***************************************************************************)
(* Model of the routing core of PolyLlama's model_router.lua: the shared   *)
(* dictionary ngx.shared.model_mappings (model mappings, loading locks and *)
(* pull-status records), the per-worker running-models cache, the loading  *)
(* lock manager and the pull manager.                                      *)
(*                                                                         *)
(* Every nginx worker is a process of the model.  A handler is split at    *)
(* each shared-dictionary operation and at each HTTP call: a dictionary    *)
(* operation is atomic, but two operations of the same handler are not     *)
(* atomic together with respect to the other workers.                      *)
(***************************************************************************)
EXTENDS Integers, Sequences, FiniteSets, TLC

\* ---------------------------------------------------------------- bounds
NumWorkers == 2
\* Handler calls started in one run, over all workers.
MaxCalls == 3
\* the largest number of models mapped to one instance in the placement
\* inputs
MaxCount == 3
\* the instances of the deployment whose reconciliation targets are compared
PickInstances == 10

Workers == 1..NumWorkers

\* Strings are sequences of characters.  Model names and tags a client may
\* send to pull_model; NoTag stands for a call without tag.
Names == {<<"m">>}
NoTag == <<>>
Tags == {NoTag}

\* full_model_name = model_name .. ":" .. (tag or "latest")
FullName(name, tag) == name \o <<":">> \o (IF tag = NoTag THEN <<"l", "a", "t", "e", "s", "t">> ELSE tag)

\* The full model names the handlers work on.
Models == {FullName(n, t) : n \in Names, t \in Tags}

\* string.gsub(full_model_name, "[^%w]", "_")
Sanitize(name) ==
    [k \in DOMAIN name |->
        IF name[k] \in {"a", "e", "l", "m", "s", "t"} THEN name[k] ELSE "_"]

\* Seconds on the clock (ngx.time()) at which something may happen.
LockTimes == {100, 3700, 3701}
PullTimes == {100, 1900, 1901}
CacheTimes == {100, 130, 131}
LateTimes == {100, 160, 3701}
LiveTimes == {100, 1901}

\* ------------------------------------------------------ program constants
\* get_instance_count(): OLLAMA_INSTANCE_COUNT, default "2"
NumInstances == 2
\* OLLAMA_INSTANCE_COUNT of the three-instance deployment whose placement
\* inputs are enumerated
SortInstances == 3
\* lock lease, seconds: model_mappings:add(lock_key, instance, 3600)
LockTTL == 3600
\* running_models_cache.ttl
CacheTTL == 30
\* retention of a pull-status record: set(status_key, ..., 3600)
StatusTTL == 3600
\* get_pull_status: elapsed > 1800
PullTimeout == 1800

\* instance i stands for the name "polyllama" .. i; 0 stands for nil
Instances == 1..NumInstances
NoInstance == 0

VARIABLES
    now,        \* ngx.time()
    backend,    \* backend[i]: the models instance i reports in /api/ps
    mappings,   \* model_mappings[model]: decoded mapping record
    locks,      \* model_mappings["loading:" .. model]: owner and expiry
    pulls,      \* model_mappings["pull_status:" .. id]: decoded status record
    cache,      \* running_models_cache of each worker
    pc,         \* position of each worker in its handler
    op,         \* the handler a worker runs (or ran last)
    lv,         \* the handler's locals
    ret,        \* what the handler returned
    holders,    \* history: callers that were told acquired=true since the
                \* last release or expiry of the model's lock
    lastEv,     \* history: the last event on the model's lock key
    lockedAt,   \* history: when the model's lock was last written, 0 once
                \* it has been deleted
    hist,       \* history of the current call of each worker
    calls       \* history: handler calls started so far

vars == <<now, backend, pulls, mappings, locks, cache, pc, op, lv, ret,
          holders, lastEv, lockedAt, hist, calls>>

\* --------------------------------------------------------------- helpers
NoLock == [owner |-> NoInstance, exp |-> 0]
NoMapping == [instance |-> NoInstance, running |-> FALSE]
EmptyData == [m \in Models |-> <<>>]
NoRec == [model |-> <<>>, instance |-> NoInstance, status |-> "",
          progress |-> 0, started_at |-> 0, completed_at |-> 0,
          error |-> FALSE, exp |-> 0]
NoLocals == [model |-> CHOOSE m \in Models : TRUE, inst |-> NoInstance,
             idx |-> 0, acc |-> EmptyData, rinst |-> NoInstance,
             rrun |-> FALSE, cur_inst |-> NoInstance, cur_run |-> "nil",
             keys |-> {}, counts |-> <<>>, acquired |-> FALSE,
             pid |-> <<>>, rec |-> NoRec, forced |-> FALSE, fixed |-> 0,
             map0 |-> [m \in Models |-> NoMapping], seen |-> <<>>,
             force |-> FALSE, expired |-> FALSE, req |-> <<>>,
             tags |-> <<>>, success |-> TRUE, pkeys |-> {},
             instances |-> <<>>]
Ret(ok, owner) ==
    [ok |-> ok, owner |-> owner, pid |-> <<>>, status |-> "", count |-> 0,
     data |-> EmptyData, name |-> <<>>, models |-> <<>>, dups |-> {}]
NoRet == Ret(FALSE, NoInstance)
NoHist == [startOwner |-> NoInstance, intf |-> FALSE, mintf |-> FALSE,
           wrote |-> FALSE, refreshes |-> 0, started |-> FALSE,
           answer |-> "", mapped |-> "", reports |-> <<>>,
           dropped |-> FALSE]

\* A key of the shared dictionary is visible until its expiry time has
\* passed (ngx.shared.DICT: exptime in seconds); the model removes a key
\* when the clock passes its expiry, so a stored key is a live key.
Live(l) == l.owner # NoInstance

\* The workers that are inside a call about model m, other than w.
Others(w, m) == {v \in Workers \ {w} : pc[v] # "idle" /\ lv[v].model = m}

\* hist after another agent changed the lock key the workers of S work on
Disturb(S) == [v \in Workers |->
                 IF v \in S THEN [hist[v] EXCEPT !.intf = TRUE] ELSE hist[v]]

\* hist after another agent changed the mapping the workers of S work on
DisturbMap(S) == [v \in Workers |->
                    IF v \in S THEN [hist[v] EXCEPT !.mintf = TRUE] ELSE hist[v]]

Init ==
    /\ now = 100
    /\ backend = [i \in Instances |-> {}]
    /\ mappings = [m \in Models |-> NoMapping]
    /\ locks = [m \in Models |-> NoLock]
    /\ pulls = <<>>
    /\ cache = [w \in Workers |-> [data |-> EmptyData, timestamp |-> 0]]
    /\ pc = [w \in Workers |-> "idle"]
    /\ op = [w \in Workers |-> "none"]
    /\ lv = [w \in Workers |-> NoLocals]
    /\ ret = [w \in Workers |-> NoRet]
    /\ holders = [m \in Models |-> {}]
    /\ lastEv = [m \in Models |-> "never"]
    /\ lockedAt = [m \in Models |-> 0]
    /\ hist = [w \in Workers |-> NoHist]
    /\ calls = 0

\* ------------------------------------------------------------ environment
\* The clock moves to the next time point; keys whose expiry time has
\* passed are gone from the dictionary (get, add and get_keys treat an
\* expired key as absent).
Expired(l, t) == Live(l) /\ l.exp # 0 /\ l.exp < t

TickIn(TimePoints) ==
    /\ \E t \in TimePoints : t > now
    /\ LET t == CHOOSE t \in TimePoints :
                  t > now /\ \A u \in TimePoints : u > now => t <= u
           gone == {m \in Models : Expired(locks[m], t)}
       IN /\ now' = t
          /\ locks' = [m \in Models |-> IF m \in gone THEN NoLock ELSE locks[m]]
          /\ holders' = [m \in Models |-> IF m \in gone THEN {} ELSE holders[m]]
          /\ lastEv' = [m \in Models |-> IF m \in gone THEN "expiry" ELSE lastEv[m]]
          /\ hist' = Disturb({w \in Workers : pc[w] # "idle" /\ lv[w].model \in gone})
          /\ pulls' = [id \in {k \in DOMAIN pulls : pulls[k].exp >= t} |-> pulls[id]]
    /\ UNCHANGED <<backend, mappings, cache, pc, op, lv, ret, lockedAt, calls>>

LockTick == TickIn(LockTimes)

PullTick == TickIn(PullTimes)

CacheTick == TickIn(CacheTimes)

\* A backend finishes loading a model, or unloads it.
BackendLoad ==
    \E i \in Instances, m \in Models :
        /\ m \notin backend[i]
        /\ backend' = [backend EXCEPT ![i] = @ \cup {m}]
        /\ UNCHANGED <<now, pulls, mappings, locks, cache, pc, op, lv, ret,
                       holders, lastEv, lockedAt, hist, calls>>

BackendUnload ==
    \E i \in Instances, m \in Models :
        /\ m \in backend[i]
        /\ backend' = [backend EXCEPT ![i] = @ \ {m}]
        /\ UNCHANGED <<now, pulls, mappings, locks, cache, pc, op, lv, ret,
                       holders, lastEv, lockedAt, hist, calls>>

\* ------------------------------------------------- running-models polling
\* get_running_models(): one GET /api/ps per instance, in index order; an
\* instance that fails, times out or answers garbage contributes nothing.
PollInstance(acc, i, answered) ==
    [m \in Models |-> IF answered /\ m \in backend[i]
                      THEN Append(acc[m], i) ELSE acc[m]]

\* (variant: the entries of the previous snapshot stay for the models the
\* new one does not list)
RefreshedMerged(old, running_models, t) ==
    [data |-> [m \in Models |-> IF running_models[m] # <<>>
                                 THEN running_models[m] ELSE old.data[m]],
     timestamp |-> t]

\* force_refresh_running_models_cache: running_models_cache.data =
\* running_models; running_models_cache.timestamp = ngx.time()
Refreshed(old, running_models, t) ==
    [data |-> running_models, timestamp |-> t]

\* is_model_running_on_any_instance: instances[1] of the cached entry
FirstRunning(data, m) == IF Len(data[m]) > 0 THEN data[m][1] ELSE NoInstance

\* the locals that remain of a call once it has returned: its arguments
Args(l) ==
    [NoLocals EXCEPT !.model = l.model, !.inst = l.inst, !.pid = l.pid,
                     !.map0 = l.map0, !.seen = l.seen, !.force = l.force]

\* A handler starts: its arguments, fresh locals, one more call.
Begin(w, name, first, locals) ==
    /\ pc[w] = "idle"
    /\ calls < MaxCalls
    /\ calls' = calls + 1
    /\ pc' = [pc EXCEPT ![w] = first]
    /\ op' = [op EXCEPT ![w] = name]
    /\ lv' = [lv EXCEPT ![w] = locals]
    /\ ret' = [ret EXCEPT ![w] = NoRet]
    /\ hist' = [hist EXCEPT ![w] =
                  [NoHist EXCEPT !.startOwner = locks[locals.model].owner]]

\* A handler returns r.
Return(w, r) ==
    /\ pc' = [pc EXCEPT ![w] = "idle"]
    /\ ret' = [ret EXCEPT ![w] = r]
    /\ lv' = [lv EXCEPT ![w] = Args(@)]

\* --------------------------------------------------- lock_model_loading
StartLock(w) ==
    \E m \in Models, i \in Instances :
        /\ Begin(w, "lock", "lk_scan", [NoLocals EXCEPT !.model = m, !.inst = i])
        /\ UNCHANGED <<now, backend, pulls, mappings, locks, cache, holders, lastEv, lockedAt>>

\* (variant: pull_model goes on whatever lock_model_loading answered)
LockReturnProceeds(w, r) ==
    IF op[w] = "pull"
    THEN /\ pc' = [pc EXCEPT ![w] = "pl_begin"]
         /\ lv' = [lv EXCEPT ![w] = [Args(@) EXCEPT !.acquired = r.ok]]
         /\ UNCHANGED ret
    ELSE Return(w, r)

\* lock_model_loading returns acquired, owner.  Inside pull_model the
\* result is tested with "not lock_acquired and existing_loader": only a
\* refusal that names an owner makes pull_model return; otherwise it goes
\* on to create the status record.
LockReturn(w, r) ==
    IF op[w] = "pull"
    THEN IF ~r.ok /\ r.owner # NoInstance
         THEN Return(w, r)
         ELSE /\ pc' = [pc EXCEPT ![w] = "pl_begin"]
              /\ lv' = [lv EXCEPT ![w] = [Args(@) EXCEPT !.acquired = r.ok]]
              /\ UNCHANGED ret
    ELSE Return(w, r)

\* (variant: the add is attempted whatever the refresh shows)
LockScanNoCheck(w) ==
    /\ pc[w] = "lk_scan"
    /\ \E answered \in BOOLEAN :
        LET i == lv[w].idx + 1
            acc == PollInstance(lv[w].acc, i, answered)
        IN IF i < NumInstances
           THEN /\ lv' = [lv EXCEPT ![w].idx = i, ![w].acc = acc]
                /\ UNCHANGED <<cache, pc, hist>>
           ELSE /\ cache' = [cache EXCEPT ![w] = Refreshed(cache[w], acc, now)]
                /\ lv' = [lv EXCEPT ![w].idx = 0, ![w].acc = EmptyData]
                /\ hist' = [hist EXCEPT ![w].refreshes = @ + 1]
                /\ pc' = [pc EXCEPT ![w] = "lk_add"]
    /\ UNCHANGED <<now, backend, pulls, mappings, locks, op, ret, holders, lastEv, lockedAt, calls>>

\* is_model_running_on_any_instance(model_name, true): the forced refresh,
\* one instance per step; after the last answer the cache is replaced and
\* the handler branches on whether the model is running.
LockScan(w) ==
    /\ pc[w] = "lk_scan"
    /\ \E answered \in BOOLEAN :
        LET i == lv[w].idx + 1
            acc == PollInstance(lv[w].acc, i, answered)
            running == FirstRunning(acc, lv[w].model)
        IN IF i < NumInstances
           THEN /\ lv' = [lv EXCEPT ![w].idx = i, ![w].acc = acc]
                /\ UNCHANGED <<cache, pc, hist>>
           ELSE /\ cache' = [cache EXCEPT ![w] = Refreshed(cache[w], acc, now)]
                /\ lv' = [lv EXCEPT ![w].idx = 0, ![w].acc = EmptyData,
                                    ![w].rinst = running, ![w].rrun = TRUE]
                /\ hist' = [hist EXCEPT ![w].refreshes = @ + 1]
                /\ pc' = [pc EXCEPT ![w] = IF running # NoInstance
                                           THEN "sm_get1" ELSE "lk_add"]
    /\ UNCHANGED <<now, backend, pulls, mappings, locks, op, ret, holders, lastEv, lockedAt, calls>>

\* set_model_mapping(model, running_instance, true): get_safe_instance_mapping
SmGet1(w) ==
    /\ pc[w] = "sm_get1"
    /\ lv' = [lv EXCEPT ![w].cur_inst = mappings[lv[w].model].instance]
    /\ pc' = [pc EXCEPT ![w] = "sm_get2"]
    /\ UNCHANGED <<now, backend, pulls, mappings, locks, cache, op, ret,
                   holders, lastEv, lockedAt, hist, calls>>

\* is_model_running_from_mapping: nil without a record, else running == true
SmGet2(w) ==
    /\ pc[w] = "sm_get2"
    /\ LET cur == mappings[lv[w].model]
       IN lv' = [lv EXCEPT ![w].cur_run =
                    IF cur.instance = NoInstance THEN "nil"
                    ELSE IF cur.running THEN "true" ELSE "false"]
    /\ pc' = [pc EXCEPT ![w] = "sm_set"]
    /\ UNCHANGED <<now, backend, pulls, mappings, locks, cache, op, ret,
                   holders, lastEv, lockedAt, hist, calls>>

\* check_and_fix_inconsistent_mappings after model k: the next model of
\* the snapshot, or the call of detect_duplicate_model_instances
FixNext(w, k, fixed) ==
    LET rest == lv[w].keys \ {k}
    IN /\ pc' = [pc EXCEPT ![w] = IF rest = {} THEN "cf_dup" ELSE "cf_get"]
       /\ lv' = [lv EXCEPT ![w].keys = rest, ![w].fixed = fixed]
       /\ UNCHANGED ret

\* what the caller of set_model_mapping does next:
\* assign_model_to_least_loaded_instance returns the instance (inside
\* pull_model, lock_model_loading follows with that instance);
\* get_instance_for_model returns the running instance;
\* check_and_fix_inconsistent_mappings counts the fix; lock_model_loading
\* returns false, running_instance.
AfterSet(w) ==
    IF op[w] \in {"assign", "route"} THEN Return(w, Ret(TRUE, lv[w].rinst))
    ELSE IF op[w] = "fix" THEN FixNext(w, lv[w].model, lv[w].fixed + 1)
    ELSE IF lv[w].rrun THEN LockReturn(w, Ret(FALSE, lv[w].rinst))
    ELSE /\ pc' = [pc EXCEPT ![w] = "lk_scan"]
         /\ lv' = [lv EXCEPT ![w] = [Args(@) EXCEPT !.inst = lv[w].rinst]]
         /\ UNCHANGED ret

\* (variant: every call writes)
MappingChangesAlways(w) == TRUE

\* (variant: no call writes)
MappingChangesNever(w) == FALSE

\* if current_mapping ~= instance or current_running ~= is_running
MappingChanges(w) ==
    LET is_running == IF lv[w].rrun THEN "true" ELSE "false"
    IN lv[w].cur_inst # lv[w].rinst \/ lv[w].cur_run # is_running

\* the write of set_model_mapping(model, rinst, rrun), suppressed when
\* nothing changes; a write invalidates the running-models cache of the
\* worker that runs the call.
SmSet(w) ==
    /\ pc[w] = "sm_set"
    /\ LET m == lv[w].model
           changes == MappingChanges(w)
       IN /\ mappings' = IF changes
                         THEN [mappings EXCEPT ![m] =
                                 [instance |-> lv[w].rinst, running |-> lv[w].rrun]]
                         ELSE mappings
          /\ cache' = IF changes THEN [cache EXCEPT ![w].timestamp = 0] ELSE cache
          /\ hist' = [(IF changes THEN DisturbMap(Others(w, m)) ELSE hist)
                      EXCEPT ![w].mapped = IF changes THEN "written" ELSE "kept"]
          /\ AfterSet(w)
    /\ UNCHANGED <<now, backend, pulls, locks, op, holders, lastEv, lockedAt, calls>>

\* (variant: the key is stored with set, whatever is there)
AddSucceedsAlways(w) == TRUE

\* model_mappings:add(lock_key, instance, 3600) stores the key only when no
\* live key exists.
AddSucceeds(w) == ~Live(locks[lv[w].model])

\* (variant: the key is added without an expiry time)
AddLockNoLease(w) ==
    LET m == lv[w].model
    IN /\ locks' = [locks EXCEPT ![m] = [owner |-> lv[w].inst, exp |-> 0]]
       /\ holders' = [holders EXCEPT ![m] = @ \cup {w}]
       /\ lastEv' = [lastEv EXCEPT ![m] = "add"]
       /\ lockedAt' = [lockedAt EXCEPT ![m] = now]
       /\ hist' = [Disturb(Others(w, m)) EXCEPT ![w].wrote = TRUE]
       /\ LockReturn(w, Ret(TRUE, NoInstance))

AddLock(w) ==
    LET m == lv[w].model
    IN /\ locks' = [locks EXCEPT ![m] =
                      [owner |-> lv[w].inst, exp |-> now + LockTTL]]
       /\ holders' = [holders EXCEPT ![m] = @ \cup {w}]
       /\ lastEv' = [lastEv EXCEPT ![m] = "add"]
       /\ lockedAt' = [lockedAt EXCEPT ![m] = now]
       /\ hist' = [Disturb(Others(w, m)) EXCEPT ![w].wrote = TRUE]
       /\ LockReturn(w, Ret(TRUE, NoInstance))

LockAdd(w) ==
    /\ pc[w] = "lk_add"
    /\ IF AddSucceeds(w)
       THEN AddLock(w)
       ELSE /\ pc' = [pc EXCEPT ![w] = "lk_get"]
            /\ UNCHANGED <<locks, holders, hist, ret, lv, lastEv, lockedAt>>
    /\ UNCHANGED <<now, backend, pulls, mappings, cache, op, calls>>

\* current_loader = model_mappings:get(lock_key) after the failed add
LockGet(w) ==
    /\ pc[w] = "lk_get"
    /\ LET current_loader == locks[lv[w].model].owner
       IN IF current_loader # NoInstance
          THEN LockReturn(w, Ret(FALSE, current_loader))
          ELSE pc' = [pc EXCEPT ![w] = "lk_del"] /\ UNCHANGED <<ret, lv>>
    /\ UNCHANGED <<now, backend, pulls, mappings, locks, cache, op, holders, lastEv,
                   lockedAt, hist, calls>>

\* no owner could be read: model_mappings:delete(lock_key)
LockDel(w) ==
    /\ pc[w] = "lk_del"
    /\ LET m == lv[w].model
       IN /\ locks' = [locks EXCEPT ![m] = NoLock]
          /\ IF Live(locks[m])
             THEN /\ lastEv' = [lastEv EXCEPT ![m] = "cleanup"]
                  /\ lockedAt' = [lockedAt EXCEPT ![m] = 0]
                  /\ hist' = [Disturb(Others(w, m)) EXCEPT ![w].wrote = TRUE]
             ELSE UNCHANGED <<lastEv, lockedAt, hist>>
    /\ pc' = [pc EXCEPT ![w] = "lk_retry"]
    /\ UNCHANGED <<now, backend, pulls, mappings, cache, op, lv, ret, holders, calls>>

\* (variant: a failed second add goes back to the delete)
LockRetryAgain(w) ==
    /\ pc[w] = "lk_retry"
    /\ IF AddSucceeds(w)
       THEN AddLock(w)
       ELSE /\ pc' = [pc EXCEPT ![w] = "lk_del"]
            /\ UNCHANGED <<locks, holders, hist, lastEv, lockedAt, ret, lv>>
    /\ UNCHANGED <<now, backend, pulls, mappings, cache, op, calls>>

\* the second add; when it fails too the handler returns false, nil
LockRetry(w) ==
    /\ pc[w] = "lk_retry"
    /\ IF AddSucceeds(w)
       THEN AddLock(w)
       ELSE /\ LockReturn(w, Ret(FALSE, NoInstance))
            /\ UNCHANGED <<locks, holders, hist, lastEv, lockedAt>>
    /\ UNCHANGED <<now, backend, pulls, mappings, cache, op, calls>>

\* ------------------------------------------------- unlock_model_loading
StartUnlock(w) ==
    \E m \in Models :
        /\ Begin(w, "unlock", "ul_del", [NoLocals EXCEPT !.model = m])
        /\ UNCHANGED <<now, backend, pulls, mappings, locks, cache, holders, lastEv, lockedAt>>

\* (variant: the cache is invalidated but the key is not deleted)
ReleaseKeepsKey(w, m) ==
    /\ cache' = [cache EXCEPT ![w].timestamp = 0]
    /\ holders' = [holders EXCEPT ![m] = {}]
    /\ lastEv' = [lastEv EXCEPT ![m] = "unlock"]
    /\ hist' = Disturb(Others(w, m))
    /\ UNCHANGED <<locks, lockedAt>>

\* model_mappings:delete(lock_key), then invalidate_running_models_cache()
Release(w, m) ==
    /\ locks' = [locks EXCEPT ![m] = NoLock]
    /\ cache' = [cache EXCEPT ![w].timestamp = 0]
    /\ holders' = [holders EXCEPT ![m] = {}]
    /\ lastEv' = [lastEv EXCEPT ![m] = "unlock"]
    /\ lockedAt' = [lockedAt EXCEPT ![m] = 0]
    /\ hist' = [Disturb(Others(w, m)) EXCEPT ![w].wrote = Live(locks[m])]

Unlock(w) ==
    /\ pc[w] = "ul_del"
    /\ Release(w, lv[w].model)
    /\ Return(w, NoRet)
    /\ UNCHANGED <<now, backend, pulls, mappings, op, calls>>

\* ------------------------------------------- refresh_model_loading_lock
StartRefresh(w) ==
    \E m \in Models, i \in Instances :
        /\ Begin(w, "refresh", "rf_get", [NoLocals EXCEPT !.model = m, !.inst = i])
        /\ UNCHANGED <<now, backend, pulls, mappings, locks, cache, holders, lastEv, lockedAt>>

\* (variant: the lease is extended for whoever asks while a lock exists)
RefreshGetAnyOwner(w) ==
    /\ pc[w] = "rf_get"
    /\ LET current_instance == locks[lv[w].model].owner
       IN IF current_instance # NoInstance
          THEN pc' = [pc EXCEPT ![w] = "rf_set"] /\ UNCHANGED <<ret, lv>>
          ELSE Return(w, Ret(FALSE, NoInstance))
    /\ UNCHANGED <<now, backend, pulls, mappings, locks, cache, op, holders, lastEv,
                   lockedAt, hist, calls>>

\* current_instance = model_mappings:get(lock_key) and the ownership test
RefreshGet(w) ==
    /\ pc[w] = "rf_get"
    /\ LET current_instance == locks[lv[w].model].owner
       IN IF current_instance # NoInstance /\ current_instance = lv[w].inst
          THEN pc' = [pc EXCEPT ![w] = "rf_set"] /\ UNCHANGED <<ret, lv>>
          ELSE Return(w, Ret(FALSE, NoInstance))
    /\ UNCHANGED <<now, backend, pulls, mappings, locks, cache, op, holders, lastEv,
                   lockedAt, hist, calls>>

\* model_mappings:set(lock_key, instance, 3600)
RefreshSet(w) ==
    /\ pc[w] = "rf_set"
    /\ LET m == lv[w].model
       IN /\ locks' = [locks EXCEPT ![m] =
                         [owner |-> lv[w].inst, exp |-> now + LockTTL]]
          /\ hist' = [(IF locks[m].owner # lv[w].inst
                       THEN Disturb(Others(w, m)) ELSE hist)
                      EXCEPT ![w].wrote = TRUE]
          /\ lastEv' = [lastEv EXCEPT ![m] = "set"]
          /\ lockedAt' = [lockedAt EXCEPT ![m] = now]
    /\ Return(w, Ret(TRUE, NoInstance))
    /\ UNCHANGED <<now, backend, pulls, mappings, cache, op, holders, calls>>

\* ------------------------------- assign_model_to_least_loaded_instance
\* table.sort (the sort of Lua 5.1 and LuaJIT) on up to three elements:
\* a[up] and a[lo] are exchanged when a[up] < a[lo], then the middle
\* element is put in place with one more exchange.
Swap(a, i, j) == [a EXCEPT ![i] = a[j], ![j] = a[i]]

CountLess(x, y) == x.count < y.count

TableSort(a) ==
    LET n == Len(a)
        b == IF n >= 2 /\ CountLess(a[n], a[1]) THEN Swap(a, 1, n) ELSE a
    IN IF n <= 2 THEN b
       ELSE IF CountLess(b[2], b[1]) THEN Swap(b, 1, 2)
       ELSE IF CountLess(b[3], b[2]) THEN Swap(b, 2, 3)
       ELSE b

\* instance_counts sorted by count; the first entry is the instance chosen
LeastLoaded(counts) ==
    TableSort([i \in DOMAIN counts |-> [instance |-> i, count |-> counts[i]]])[1].instance

\* The placement of a three-instance deployment after the counting loop:
\* worker 1 holds any tally of mappings per instance.
InitSort ==
    /\ now = 100
    /\ backend = [i \in Instances |-> {}]
    /\ mappings = [m \in Models |-> NoMapping]
    /\ locks = [m \in Models |-> NoLock]
    /\ pulls = <<>>
    /\ cache = [w \in Workers |-> [data |-> EmptyData, timestamp |-> 0]]
    /\ \E c \in [1..SortInstances -> 0..MaxCount] :
          lv = [w \in Workers |->
                  IF w = 1 THEN [NoLocals EXCEPT !.counts = c] ELSE NoLocals]
    /\ pc = [w \in Workers |-> IF w = 1 THEN "as_sort" ELSE "idle"]
    /\ op = [w \in Workers |-> IF w = 1 THEN "assign" ELSE "none"]
    /\ ret = [w \in Workers |-> NoRet]
    /\ holders = [m \in Models |-> {}]
    /\ lastEv = [m \in Models |-> "never"]
    /\ lockedAt = [m \in Models |-> 0]
    /\ hist = [w \in Workers |-> NoHist]
    /\ calls = 1

\* table.sort(instance_counts, ...); least_loaded = instance_counts[1].instance
AssignSort(w) ==
    /\ pc[w] = "as_sort"
    /\ pc' = [pc EXCEPT ![w] = "as_sorted"]
    /\ lv' = [lv EXCEPT ![w].rinst = LeastLoaded(lv[w].counts)]
    /\ UNCHANGED <<now, backend, pulls, mappings, locks, cache, op, ret,
                   holders, lastEv, lockedAt, hist, calls>>

\* (variant: any stored JSON is read as a mapping)
DecodedInstanceOfAny(encoding, instance) == instance

\* get_safe_instance_mapping on a stored value: ngx.decode_base64 gives
\* nil for text that is not base64, as the JSON text of a pull-status
\* record, and the instance field of the decoded JSON otherwise
DecodedInstance(encoding, instance) ==
    IF encoding = "base64" THEN instance ELSE NoInstance

\* keys = model_mappings:get_keys(): the mapping keys (lv.keys) and the
\* pull_status keys (lv.pkeys); the keys that begin with loading: are
\* passed over by the loop without a read.
AssignKeys(w) ==
    /\ pc[w] = "as_keys"
    /\ LET keys == {m \in Models : mappings[m].instance # NoInstance}
           pkeys == DOMAIN pulls
           zero == [i \in Instances |-> 0]
       IN IF keys = {} /\ pkeys = {}
          THEN /\ lv' = [lv EXCEPT ![w].rinst = LeastLoaded(zero), ![w].rrun = FALSE]
               /\ pc' = [pc EXCEPT ![w] = "sm_get1"]
          ELSE /\ lv' = [lv EXCEPT ![w].keys = keys, ![w].pkeys = pkeys,
                                   ![w].counts = zero]
               /\ pc' = [pc EXCEPT ![w] = "as_read"]
    /\ UNCHANGED <<now, backend, pulls, mappings, locks, cache, op, ret,
                   holders, lastEv, lockedAt, hist, calls>>

\* the tally after one more key was read as the instance named
Tally(w, instance, keys, pkeys) ==
    LET counts == IF instance # NoInstance
                  THEN [lv[w].counts EXCEPT ![instance] = @ + 1]
                  ELSE lv[w].counts
    IN IF keys = {} /\ pkeys = {}
       THEN /\ lv' = [lv EXCEPT ![w].keys = {}, ![w].pkeys = {},
                                ![w].counts = <<>>,
                                ![w].rinst = LeastLoaded(counts),
                                ![w].rrun = FALSE]
            /\ pc' = [pc EXCEPT ![w] = "sm_get1"]
       ELSE /\ lv' = [lv EXCEPT ![w].keys = keys, ![w].pkeys = pkeys,
                                ![w].counts = counts]
            /\ UNCHANGED pc

\* get_safe_instance_mapping(key) for one of the keys, in any order, and
\* the tally; after the last key the table is sorted and
\* set_model_mapping(model, least_loaded, false) begins.
AssignRead(w) ==
    /\ pc[w] = "as_read"
    /\ \/ \E k \in lv[w].keys :
            Tally(w, DecodedInstance("base64", mappings[k].instance),
                  lv[w].keys \ {k}, lv[w].pkeys)
       \/ \E id \in lv[w].pkeys :
            Tally(w, DecodedInstance("json", IF id \in DOMAIN pulls
                                             THEN pulls[id].instance
                                             ELSE NoInstance),
                  lv[w].keys, lv[w].pkeys \ {id})
    /\ UNCHANGED <<now, backend, pulls, mappings, locks, cache, op, ret,
                   holders, lastEv, lockedAt, hist, calls>>

\* assign_model_to_least_loaded_instance(model_name) called on its own
StartAssign(w) ==
    \E m \in Models :
        /\ Begin(w, "assign", "as_keys", [NoLocals EXCEPT !.model = m])
        /\ UNCHANGED <<now, backend, pulls, mappings, locks, cache, holders,
                       lastEv, lockedAt>>

\* ------------------------------------------------ get_instance_for_model
StartRoute(w) ==
    \E m \in Models :
        /\ Begin(w, "route", "gi_get", [NoLocals EXCEPT !.model = m])
        /\ UNCHANGED <<now, backend, pulls, mappings, locks, cache, holders,
                       lastEv, lockedAt>>

\* instance = get_safe_instance_mapping(model_name): a mapped instance is
\* returned, whether the cache lists the model on it or not
RouteGet(w) ==
    /\ pc[w] = "gi_get"
    /\ LET instance == mappings[lv[w].model].instance
       IN IF instance # NoInstance
          THEN Return(w, Ret(TRUE, instance))
          ELSE pc' = [pc EXCEPT ![w] = "gi_scan"] /\ UNCHANGED <<ret, lv>>
    /\ UNCHANGED <<now, backend, pulls, mappings, locks, cache, op, holders,
                   lastEv, lockedAt, hist, calls>>

\* no mapping: is_model_running_on_any_instance(model_name, true); a running
\* model is mapped (set_model_mapping(model, running_instance, true)) and
\* that instance returned, otherwise nil is returned
RouteScan(w) ==
    /\ pc[w] = "gi_scan"
    /\ \E answered \in BOOLEAN :
        LET i == lv[w].idx + 1
            acc == PollInstance(lv[w].acc, i, answered)
            running == FirstRunning(acc, lv[w].model)
        IN IF i < NumInstances
           THEN /\ lv' = [lv EXCEPT ![w].idx = i, ![w].acc = acc]
                /\ UNCHANGED <<cache, pc, hist, ret>>
           ELSE /\ cache' = [cache EXCEPT ![w] = Refreshed(cache[w], acc, now)]
                /\ hist' = [hist EXCEPT ![w].refreshes = @ + 1]
                /\ IF running # NoInstance
                   THEN /\ lv' = [lv EXCEPT ![w].idx = 0, ![w].acc = EmptyData,
                                            ![w].rinst = running, ![w].rrun = TRUE]
                        /\ pc' = [pc EXCEPT ![w] = "sm_get1"]
                        /\ UNCHANGED ret
                   ELSE Return(w, Ret(FALSE, NoInstance))
    /\ UNCHANGED <<now, backend, pulls, mappings, locks, op, holders, lastEv,
                   lockedAt, calls>>

\* ----------------------------------- check_and_fix_inconsistent_mappings
\* lv.map0 keeps the mappings the call started from (history).
StartFix(w) ==
    /\ Begin(w, "fix", "cf_scan", [NoLocals EXCEPT !.map0 = mappings])
    /\ UNCHANGED <<now, backend, pulls, mappings, locks, cache, holders,
                   lastEv, lockedAt>>

\* running_models = get_running_models(): the cache is not touched; the
\* models with at least one instance are then examined one by one
FixScan(w) ==
    /\ pc[w] = "cf_scan"
    /\ \E answered \in BOOLEAN :
        LET i == lv[w].idx + 1
            acc == PollInstance(lv[w].acc, i, answered)
            keys == {m \in Models : Len(acc[m]) > 0}
        IN IF i < NumInstances
           THEN /\ lv' = [lv EXCEPT ![w].idx = i, ![w].acc = acc]
                /\ UNCHANGED <<pc, ret>>
           ELSE IF keys = {}
           THEN Return(w, Ret(TRUE, NoInstance))
           ELSE /\ lv' = [lv EXCEPT ![w].idx = 0, ![w].acc = acc, ![w].keys = keys]
                /\ pc' = [pc EXCEPT ![w] = "cf_get"]
                /\ UNCHANGED ret
    /\ UNCHANGED <<now, backend, pulls, mappings, locks, cache, op, holders,
                   lastEv, lockedAt, hist, calls>>

\* (variant: only the first entry of the table is compared)
ContainsFirst(instances, value) == instances # <<>> /\ instances[1] = value

\* table_contains(instances, value)
Contains(instances, value) == \E j \in DOMAIN instances : instances[j] = value

\* (variant: only a missing mapping is fixed)
NeedsFixMissing(current_instance, instances) == current_instance = NoInstance

\* if not current_instance or not table_contains(instances, current_instance)
NeedsFix(current_instance, instances) ==
    current_instance = NoInstance \/ ~Contains(instances, current_instance)

\* current_instance = get_safe_instance_mapping(model_name) for one model
\* of the snapshot (pairs: in any order); a mapping to fix goes to
\* set_model_mapping(model_name, instances[1], true)
FixGet(w) ==
    /\ pc[w] = "cf_get"
    /\ \E k \in lv[w].keys :
        LET instances == lv[w].acc[k]
            current_instance == mappings[k].instance
        IN IF NeedsFix(current_instance, instances)
           THEN /\ lv' = [lv EXCEPT ![w].model = k, ![w].rinst = instances[1],
                                    ![w].rrun = TRUE]
                /\ pc' = [pc EXCEPT ![w] = "sm_get1"]
                /\ UNCHANGED ret
           ELSE FixNext(w, k, lv[w].fixed)
    /\ UNCHANGED <<now, backend, pulls, mappings, locks, cache, op, holders,
                   lastEv, lockedAt, hist, calls>>

\* detect_duplicate_model_instances(running_models): the models with
\* #instances > 1, each logged with its instances
Duplicates(running_models) ==
    {m \in Models : Len(running_models[m]) > 1}

\* the end of check_and_fix_inconsistent_mappings:
\* detect_duplicate_model_instances(running_models), whose report is kept
\* in ret.dups, and return fixed_count
FixDup(w) ==
    /\ pc[w] = "cf_dup"
    /\ Return(w, [Ret(TRUE, NoInstance)
                    EXCEPT !.count = lv[w].fixed,
                           !.dups = Duplicates(lv[w].acc)])
    /\ UNCHANGED <<now, backend, pulls, mappings, locks, cache, op, holders,
                   lastEv, lockedAt, hist, calls>>

\* --------------------------------------------- clean_non_running_mappings
StartClean(w) ==
    /\ Begin(w, "clean", "cl_scan", NoLocals)
    /\ UNCHANGED <<now, backend, pulls, mappings, locks, cache, holders,
                   lastEv, lockedAt>>

\* running_models = get_running_models(): the cache is not touched
CleanScan(w) ==
    /\ pc[w] = "cl_scan"
    /\ \E answered \in BOOLEAN :
        LET i == lv[w].idx + 1
            acc == PollInstance(lv[w].acc, i, answered)
        IN /\ lv' = [lv EXCEPT ![w].idx = i, ![w].acc = acc]
           /\ pc' = [pc EXCEPT ![w] =
                       IF i < NumInstances THEN "cl_scan" ELSE "cl_keys"]
    /\ UNCHANGED <<now, backend, pulls, mappings, locks, cache, op, ret,
                   holders, lastEv, lockedAt, hist, calls>>

\* keys = model_mappings:get_keys(): the mapping keys (lv.keys) and the
\* pull_status keys (lv.pkeys); the keys that begin with loading: are
\* passed over by the loop.
CleanKeys(w) ==
    /\ pc[w] = "cl_keys"
    /\ LET keys == {m \in Models : mappings[m].instance # NoInstance}
           pkeys == DOMAIN pulls
       IN IF keys = {} /\ pkeys = {}
          THEN Return(w, [Ret(TRUE, NoInstance) EXCEPT !.count = 0])
          ELSE /\ lv' = [lv EXCEPT ![w].keys = keys, ![w].pkeys = pkeys]
               /\ pc' = [pc EXCEPT ![w] = "cl_del"]
               /\ UNCHANGED ret
    /\ UNCHANGED <<now, backend, pulls, mappings, locks, cache, op, holders,
                   lastEv, lockedAt, hist, calls>>

\* clean_non_running_mappings after one key: the next key, or the return
\* of removed_count
CleanNext(w, keys, pkeys, removed_count) ==
    IF keys = {} /\ pkeys = {}
    THEN Return(w, [Ret(TRUE, NoInstance) EXCEPT !.count = removed_count])
    ELSE /\ lv' = [lv EXCEPT ![w].keys = keys, ![w].pkeys = pkeys,
                             ![w].fixed = removed_count]
         /\ UNCHANGED <<pc, ret>>

\* one turn of the loop over the keys: if not running_models[key], the key
\* is deleted and counted.  No model has the name of a pull_status key, so
\* such a key is always deleted.
CleanDel(w) ==
    /\ pc[w] = "cl_del"
    /\ \/ \E k \in lv[w].keys :
            IF lv[w].acc[k] = <<>>
            THEN /\ mappings' = [mappings EXCEPT ![k] = NoMapping]
                 /\ hist' = DisturbMap(Others(w, k))
                 /\ CleanNext(w, lv[w].keys \ {k}, lv[w].pkeys, lv[w].fixed + 1)
                 /\ UNCHANGED pulls
            ELSE /\ CleanNext(w, lv[w].keys \ {k}, lv[w].pkeys, lv[w].fixed)
                 /\ UNCHANGED <<mappings, pulls, hist>>
       \/ \E id \in lv[w].pkeys :
            /\ pulls' = [k \in DOMAIN pulls \ {id} |-> pulls[k]]
            /\ CleanNext(w, lv[w].keys, lv[w].pkeys \ {id}, lv[w].fixed + 1)
            /\ UNCHANGED <<mappings, hist>>
    /\ UNCHANGED <<now, backend, locks, cache, op, holders, lastEv,
                   lockedAt, calls>>

\* ------------------------------------------ the reconciliation target
\* "polyllama" .. i as the bytes of a Lua string: the nine letters, then
\* the decimal digits of i (tostring of an integer below 100)
InstanceName(i) ==
    <<112, 111, 108, 121, 108, 108, 97, 109, 97>>
    \o (IF i < 10 THEN <<48 + i>> ELSE <<48 + (i \div 10), 48 + (i % 10)>>)

\* x < y on Lua strings given as bytes: byte by byte, a proper prefix first
RECURSIVE StringLess(_, _)
StringLess(x, y) ==
    IF y = <<>> THEN FALSE
    ELSE IF x = <<>> THEN TRUE
    ELSE IF x[1] # y[1] THEN x[1] < y[1]
    ELSE StringLess(Tail(x), Tail(y))

\* running_models[model_name] as get_running_models builds it: the
\* instances of S in the order of the loop for i=1,instance_count
RunningInstances(S) ==
    [k \in 1..Cardinality(S) |->
        CHOOSE i \in S : Cardinality({j \in S : j < i}) = k - 1]

\* check_and_fix_inconsistent_mappings: preferred_instance = instances[1]
PreferredInstance(instances) == instances[1]

\* update_model_mappings: table.sort(instances_copy) with the default
\* order of strings, target_instance = instances_copy[1]: the instance
\* whose name is below every other name of the list
TargetInstance(running_instances) ==
    LET copy == {running_instances[k] : k \in DOMAIN running_instances}
    IN CHOOSE i \in copy :
          \A j \in copy \ {i} : StringLess(InstanceName(i), InstanceName(j))

\* One model runs on any non-empty set of the instances and is mapped to
\* any instance or to none; worker 1 is in
\* check_and_fix_inconsistent_mappings and worker 2 in
\* update_model_mappings, each with the same running_models, before the
\* test of the mapping.
InitPick ==
    /\ now = 100
    /\ backend = [i \in Instances |-> {}]
    /\ mappings = [m \in Models |-> NoMapping]
    /\ locks = [m \in Models |-> NoLock]
    /\ pulls = <<>>
    /\ cache = [w \in Workers |-> [data |-> EmptyData, timestamp |-> 0]]
    /\ \E S \in SUBSET (1..PickInstances) \ {{}},
          current_instance \in {NoInstance} \cup 1..PickInstances :
          lv = [w \in Workers |->
                  IF w \in {1, 2}
                  THEN [NoLocals EXCEPT !.instances = RunningInstances(S),
                                        !.cur_inst = current_instance]
                  ELSE NoLocals]
    /\ pc = [w \in Workers |->
               IF w = 1 THEN "cf_pick" ELSE IF w = 2 THEN "um_pick" ELSE "idle"]
    /\ op = [w \in Workers |->
               IF w = 1 THEN "fix" ELSE IF w = 2 THEN "update" ELSE "none"]
    /\ ret = [w \in Workers |-> NoRet]
    /\ holders = [m \in Models |-> {}]
    /\ lastEv = [m \in Models |-> "never"]
    /\ lockedAt = [m \in Models |-> 0]
    /\ hist = [w \in Workers |-> NoHist]
    /\ calls = 1

\* check_and_fix_inconsistent_mappings: the instance handed to
\* set_model_mapping when the mapping is to be fixed
FixPick(w) ==
    /\ pc[w] = "cf_pick"
    /\ pc' = [pc EXCEPT ![w] = "picked"]
    /\ lv' = [lv EXCEPT ![w].rinst =
                IF NeedsFix(lv[w].cur_inst, lv[w].instances)
                THEN PreferredInstance(lv[w].instances) ELSE NoInstance]
    /\ UNCHANGED <<now, backend, pulls, mappings, locks, cache, op, ret,
                   holders, lastEv, lockedAt, hist, calls>>

\* update_model_mappings: if not current_instance or not
\* current_mapping_valid, the instance handed to set_model_mapping (the
\* target differs from a mapping that is not valid)
UpdatePick(w) ==
    /\ pc[w] = "um_pick"
    /\ pc' = [pc EXCEPT ![w] = "picked"]
    /\ lv' = [lv EXCEPT ![w].rinst =
                IF NeedsFix(lv[w].cur_inst, lv[w].instances)
                THEN TargetInstance(lv[w].instances) ELSE NoInstance]
    /\ UNCHANGED <<now, backend, pulls, mappings, locks, cache, op, ret,
                   holders, lastEv, lockedAt, hist, calls>>

\* --------------------------------------------------- extract_model_name
\* A request: its method, its body (none, not JSON but form data, or a
\* JSON object with any of the fields model, name, messages[1].model and
\* parameters.model), the segments of its path, its query parameters and
\* the headers ollama-model and x-model.  A value is a sequence of pieces
\* of text, the empty sequence is nil.
Nil == <<>>

Methods == {"GET", "POST", "PUT", "DELETE"}

Opt(v) == {Nil, <<v>>}

Bodies ==
    {[kind |-> "none", model |-> Nil, name |-> Nil, msg |-> Nil, par |-> Nil]}
    \cup [kind : {"form"}, model : Opt("Bf"), name : {Nil}, msg : {Nil},
          par : {Nil}]
    \cup [kind : {"json"}, model : Opt("Bm"), name : Opt("Bn"),
          msg : Opt("Bg"), par : Opt("Bp")]

Paths == {<<"api", "generate">>, <<"api", "chat", "U">>,
          <<"api", "embeddings", "U">>, <<"v1", "models", "U">>,
          <<"chat", "U">>, <<"embeddings", "U">>,
          <<"v1", "chat", "completions">>, <<"api", "tags">>}

Param(k, v) == [k |-> k, v |-> v]

Queries == {<<>>, <<Param("model", "Q")>>, <<Param("stream", "1")>>,
            <<Param("stream", "1"), Param("model", "Q")>>}

HeaderSets == [ollama : Opt("Ho"), x : Opt("Hx")]

Requests == [method : Methods, body : Bodies, path : Paths, query : Queries,
             headers : HeaderSets]

\* the text of the query string, as it stands in ngx.var.request_uri
RECURSIVE RenderQuery(_)
RenderQuery(q) ==
    IF q = <<>> THEN <<>>
    ELSE <<q[1].k, "=", q[1].v>>
         \o (IF Len(q) > 1 THEN <<"&">> \o RenderQuery(Tail(q)) ELSE <<>>)

\* (variant: every uri is taken for the generate endpoint)
IsGenerateUriAny(req) == TRUE

\* request_uri == "/api/generate"
IsGenerateUri(req) == req.path = <<"api", "generate">> /\ req.query = <<>>

\* string.match(request_uri, "/s1/../sn%?model=([^&]+)"): the path ends
\* with the segments segs and model is the first parameter of the query
MatchQueryPattern(req, segs) ==
    LET n == Len(req.path)
        k == Len(segs)
    IN IF /\ n >= k /\ \A j \in 1..k : req.path[n - k + j] = segs[j]
          /\ req.query # <<>> /\ req.query[1].k = "model"
       THEN <<req.query[1].v>>
       ELSE Nil

\* string.match(request_uri, "/a/b/([^/]+)"): the text after the leftmost
\* /a/b/ up to the next slash or to the end of the uri, query string
\* included
MatchPathPattern(req, a, b) ==
    LET n == Len(req.path)
        hits == {k \in 1..n : k + 2 <= n /\ req.path[k] = a /\ req.path[k + 1] = b}
    IN IF hits = {} THEN Nil
       ELSE LET k == CHOOSE k \in hits : \A j \in hits : k <= j
            IN IF k + 2 = n /\ req.query # <<>>
               THEN <<req.path[n], "?">> \o RenderQuery(req.query)
               ELSE <<req.path[k + 2]>>

\* the first of the five patterns that matches
UrlPatterns(req) ==
    LET p == <<MatchQueryPattern(req, <<"api", "generate">>),
               MatchPathPattern(req, "api", "chat"),
               MatchPathPattern(req, "api", "embeddings"),
               MatchPathPattern(req, "v1", "models"),
               MatchQueryPattern(req, <<"v1", "chat", "completions">>)>>
        hits == {k \in DOMAIN p : p[k] # Nil}
    IN IF hits = {} THEN Nil
       ELSE p[CHOOSE k \in hits : \A j \in hits : k <= j]

\* ngx.req.get_uri_args().model
QueryModel(req) ==
    LET hits == {k \in DOMAIN req.query : req.query[k].k = "model"}
    IN IF hits = {} THEN Nil
       ELSE <<req.query[CHOOSE k \in hits : \A j \in hits : k <= j].v>>

\* (variant: only x-model is read)
HeaderModelXOnly(req) == req.headers.x

\* headers["ollama-model"] on /api/generate, then headers["x-model"]
HeaderModel(req) ==
    IF IsGenerateUri(req) /\ req.headers.ollama # Nil THEN req.headers.ollama
    ELSE req.headers.x

\* what the url, the query and the headers give, in this order
FromUrl(req) ==
    IF UrlPatterns(req) # Nil THEN UrlPatterns(req)
    ELSE IF QueryModel(req) # Nil THEN QueryModel(req)
    ELSE HeaderModel(req)

\* what the decoded body gives: body.model; body.name on /api/generate;
\* body.messages[1].model; body.parameters.model; for a body that is not
\* JSON, the model field of the form data
FromBody(req) ==
    LET body == req.body
    IN IF body.kind = "json"
       THEN IF body.model # Nil THEN body.model
            ELSE IF IsGenerateUri(req) /\ body.name # Nil THEN body.name
            ELSE IF body.msg # Nil THEN body.msg
            ELSE body.par
       ELSE IF body.kind = "form" THEN body.model
       ELSE Nil

\* (variant: the body of every request but a GET is read)
ReadsBodyUnlessGet(req) == req.method # "GET"

\* if request_method == "POST" or request_method == "PUT"
ReadsBody(req) == req.method \in {"POST", "PUT"}

ExtractModelName(req) ==
    IF ReadsBody(req) /\ FromBody(req) # Nil THEN FromBody(req)
    ELSE FromUrl(req)

\* a request arrives at worker 1
InitExtract ==
    /\ now = 100
    /\ backend = [i \in Instances |-> {}]
    /\ mappings = [m \in Models |-> NoMapping]
    /\ locks = [m \in Models |-> NoLock]
    /\ pulls = <<>>
    /\ cache = [w \in Workers |-> [data |-> EmptyData, timestamp |-> 0]]
    /\ \E r \in Requests :
          lv = [w \in Workers |->
                  IF w = 1 THEN [NoLocals EXCEPT !.req = r] ELSE NoLocals]
    /\ pc = [w \in Workers |-> IF w = 1 THEN "ex_start" ELSE "idle"]
    /\ op = [w \in Workers |-> IF w = 1 THEN "extract" ELSE "none"]
    /\ ret = [w \in Workers |-> NoRet]
    /\ holders = [m \in Models |-> {}]
    /\ lastEv = [m \in Models |-> "never"]
    /\ lockedAt = [m \in Models |-> 0]
    /\ hist = [w \in Workers |-> NoHist]
    /\ calls = 1

Extract(w) ==
    /\ pc[w] = "ex_start"
    /\ pc' = [pc EXCEPT ![w] = "idle"]
    /\ LET model_name == ExtractModelName(lv[w].req)
       IN ret' = [ret EXCEPT ![w] =
                    [Ret(model_name # Nil, NoInstance) EXCEPT !.name = model_name]]
    /\ UNCHANGED <<now, backend, pulls, mappings, locks, cache, op, lv,
                   holders, lastEv, lockedAt, hist, calls>>

\* ------------------------------------- is_model_running_on_any_instance
\* is_model_running_on_any_instance(model_name, force_refresh) called on
\* its own
StartIsRunning(w) ==
    \E m \in Models, force_refresh \in BOOLEAN :
        /\ Begin(w, "isrun", "ir_check",
                 [NoLocals EXCEPT !.model = m, !.force = force_refresh])
        /\ UNCHANGED <<now, backend, pulls, mappings, locks, cache, holders,
                       lastEv, lockedAt>>

\* (variant: an expired cache is consulted as it is)
CacheExpiredNever(w) == FALSE

\* current_time - running_models_cache.timestamp > running_models_cache.ttl
CacheExpired(w) == now - cache[w].timestamp > CacheTTL

\* if force_refresh or the cache is expired, the cache is refreshed first;
\* otherwise the cache answers when it lists the model, and is refreshed
\* with force when it does not.  lv.forced says that the refresh to come
\* is the last one.
IsRunCheck(w) ==
    /\ pc[w] = "ir_check"
    /\ LET expired == CacheExpired(w)
           cached == FirstRunning(cache[w].data, lv[w].model)
       IN IF lv[w].force \/ expired
          THEN /\ lv' = [lv EXCEPT ![w].forced = lv[w].force,
                                   ![w].expired = expired]
               /\ pc' = [pc EXCEPT ![w] = "ir_scan"]
               /\ UNCHANGED ret
          ELSE IF cached # NoInstance
          THEN Return(w, Ret(TRUE, cached))
          ELSE /\ lv' = [lv EXCEPT ![w].forced = TRUE]
               /\ pc' = [pc EXCEPT ![w] = "ir_scan"]
               /\ UNCHANGED ret
    /\ UNCHANGED <<now, backend, pulls, mappings, locks, cache, op, holders,
                   lastEv, lockedAt, hist, calls>>

\* force_refresh_running_models_cache(), one instance per step (hist.reports
\* keeps what each instance reported in this refresh, hist.dropped that a
\* listed model went out of the cache: history), then the
\* look into the refreshed cache: the model is listed and instances[1] is
\* returned; or it is absent after the refresh of an expired cache and the
\* forced refresh follows; or it is absent and nil is returned.
IsRunScan(w) ==
    /\ pc[w] = "ir_scan"
    /\ \E answered \in BOOLEAN :
        LET i == lv[w].idx + 1
            acc == PollInstance(lv[w].acc, i, answered)
            running == FirstRunning(acc, lv[w].model)
            report == IF answered THEN backend[i] ELSE {}
            reports == IF i = 1 THEN <<report>>
                       ELSE Append(hist[w].reports, report)
        IN IF i < NumInstances
           THEN /\ lv' = [lv EXCEPT ![w].idx = i, ![w].acc = acc]
                /\ hist' = [hist EXCEPT ![w].reports = reports]
                /\ UNCHANGED <<cache, pc, ret>>
           ELSE /\ cache' = [cache EXCEPT ![w] = Refreshed(cache[w], acc, now)]
                /\ hist' = [hist EXCEPT
                              ![w].refreshes = @ + 1,
                              ![w].reports = reports,
                              ![w].dropped =
                                  @ \/ \E m \in Models :
                                          /\ cache[w].data[m] # <<>>
                                          /\ acc[m] = <<>>]
                /\ IF running # NoInstance
                   THEN Return(w, Ret(TRUE, running))
                   ELSE IF ~lv[w].forced
                   THEN /\ lv' = [lv EXCEPT ![w].idx = 0, ![w].acc = EmptyData,
                                            ![w].forced = TRUE]
                        /\ UNCHANGED <<pc, ret>>
                   ELSE Return(w, Ret(FALSE, NoInstance))
    /\ UNCHANGED <<now, backend, pulls, mappings, locks, op, holders, lastEv,
                   lockedAt, calls>>

\* ---------------------------------------------------- get_running_models
\* What GET /api/ps of one instance can come to: the request raises, times
\* out or gives no response ("fail"); a response whose status is not 200
\* ("status"); a 200 whose body is not JSON ("garbage"); a 200 whose body
\* is JSON of another shape, as {"models": null} or [1] ("shape"); a 200
\* with the list of loaded models ("list").
PsKinds == {"fail", "status", "garbage", "shape", "list"}

\* if ok and res and res.status == 200, then pcall(cjson.decode, res.body):
\* ps is a value when the body is JSON
Decoded(kind) == kind \in {"shape", "list"}

\* ps.models and ipairs(running_models_list) are evaluated outside pcall:
\* a decoded value that is not an object with an array of models raises
PsRaises(kind) == Decoded(kind) /\ kind # "list"

StartPs(w) ==
    /\ Begin(w, "ps", "ps_scan", NoLocals)
    /\ UNCHANGED <<now, backend, pulls, mappings, locks, cache, holders,
                   lastEv, lockedAt>>

\* one turn of the loop over the instances; lv.seen keeps the kinds of the
\* responses (history).  An error raised in the loop ends the call.
PsScan(w) ==
    /\ pc[w] = "ps_scan"
    /\ \E kind \in PsKinds :
        LET i == lv[w].idx + 1
            acc == PollInstance(lv[w].acc, i, Decoded(kind))
            seen == Append(lv[w].seen, kind)
        IN IF PsRaises(kind)
           THEN /\ pc' = [pc EXCEPT ![w] = "idle"]
                /\ ret' = [ret EXCEPT ![w] =
                             [Ret(FALSE, NoInstance) EXCEPT !.status = "error"]]
                /\ lv' = [lv EXCEPT ![w] = [NoLocals EXCEPT !.seen = seen]]
           ELSE IF i < NumInstances
           THEN /\ lv' = [lv EXCEPT ![w].idx = i, ![w].acc = acc, ![w].seen = seen]
                /\ UNCHANGED <<pc, ret>>
           ELSE /\ pc' = [pc EXCEPT ![w] = "idle"]
                /\ ret' = [ret EXCEPT ![w] =
                             [Ret(TRUE, NoInstance) EXCEPT !.data = acc]]
                /\ lv' = [lv EXCEPT ![w] = [NoLocals EXCEPT !.seen = seen]]
    /\ UNCHANGED <<now, backend, pulls, mappings, locks, cache, op, holders,
                   lastEv, lockedAt, hist, calls>>

\* -------------------------------------------------------- get_all_models
\* The names of the models an instance may have installed, as texts over
\* the characters a and b with their byte values.
TagNames == {<<"a">>, <<"a", "b">>, <<"b">>}

Byte(c) == IF c = "a" THEN 97 ELSE 98

\* a.name < b.name on Lua strings: byte by byte, a proper prefix first
RECURSIVE NameLess(_, _)
NameLess(x, y) ==
    IF y = <<>> THEN FALSE
    ELSE IF x = <<>> THEN TRUE
    ELSE IF Byte(x[1]) # Byte(y[1]) THEN Byte(x[1]) < Byte(y[1])
    ELSE NameLess(Tail(x), Tail(y))

\* table.sort(models_array, function(a, b) return a.name < b.name end) on
\* up to three entries
SortByName(a) ==
    LET n == Len(a)
        b == IF n >= 2 /\ NameLess(a[n].name, a[1].name) THEN Swap(a, 1, n) ELSE a
    IN IF n <= 2 THEN b
       ELSE IF NameLess(b[2].name, b[1].name) THEN Swap(b, 1, 2)
       ELSE IF NameLess(b[3].name, b[2].name) THEN Swap(b, 2, 3)
       ELSE b

\* What GET /api/tags of one instance can come to: no response or a status
\* other than 200 ("fail"), a 200 whose body is not JSON ("garbage"), a
\* 200 whose body is JSON of another shape ("shape"), a 200 with the list
\* of the installed models ("list").
TagsAnswers ==
    [kind : {"fail", "garbage", "shape"}, names : {{}}]
    \cup [kind : {"list"}, names : SUBSET TagNames]

StartTags(w) ==
    /\ Begin(w, "tags", "ga_scan",
             [NoLocals EXCEPT !.tags = [n \in TagNames |-> <<>>]])
    /\ UNCHANGED <<now, backend, pulls, mappings, locks, cache, holders,
                   lastEv, lockedAt>>

\* (variant: an instance is recorded only for a model not seen before)
AddInstanceFirstOnly(tags, names, i) ==
    [n \in TagNames |-> IF n \in names /\ tags[n] = <<>>
                        THEN Append(tags[n], i) ELSE tags[n]]

\* table.insert(model_instances[model.name], instance) for every model of
\* the list
AddInstance(tags, names, i) ==
    [n \in TagNames |-> IF n \in names THEN Append(tags[n], i) ELSE tags[n]]

\* one turn of the loop over the instances; lv.seen keeps the answers
\* (history).  instance_data.models of a decoded value of another shape
\* raises and ends the call.
TagsScan(w) ==
    /\ pc[w] = "ga_scan"
    /\ \E answer \in TagsAnswers :
        LET i == lv[w].idx + 1
            seen == Append(lv[w].seen, answer)
            tags == IF answer.kind = "list"
                    THEN AddInstance(lv[w].tags, answer.names, i)
                    ELSE lv[w].tags
            success == lv[w].success /\ answer.kind = "list"
        IN IF answer.kind = "shape"
           THEN /\ pc' = [pc EXCEPT ![w] = "idle"]
                /\ ret' = [ret EXCEPT ![w] =
                             [Ret(FALSE, NoInstance) EXCEPT !.status = "error"]]
                /\ lv' = [lv EXCEPT ![w] = [NoLocals EXCEPT !.seen = seen]]
           ELSE /\ lv' = [lv EXCEPT ![w].idx = i, ![w].seen = seen,
                                    ![w].tags = tags, ![w].success = success]
                /\ pc' = [pc EXCEPT ![w] =
                            IF i < NumInstances THEN "ga_scan" ELSE "ga_sort"]
                /\ UNCHANGED ret
    /\ UNCHANGED <<now, backend, pulls, mappings, locks, cache, op, holders,
                   lastEv, lockedAt, hist, calls>>

\* the sequences that list every element of S once
Orderings(S) ==
    {q \in [1..Cardinality(S) -> S] : \A j, k \in DOMAIN q : q[j] = q[k] => j = k}

\* model.instances = model_instances[name]; the entries are collected with
\* pairs (in any order) and sorted by name
TagsSort(w) ==
    /\ pc[w] = "ga_sort"
    /\ \E q \in Orderings({n \in TagNames : lv[w].tags[n] # <<>>}) :
        LET models_array ==
                [k \in DOMAIN q |-> [name |-> q[k], instances |-> lv[w].tags[q[k]]]]
        IN /\ ret' = [ret EXCEPT ![w] =
                        [Ret(lv[w].success, NoInstance)
                           EXCEPT !.models = SortByName(models_array)]]
           /\ pc' = [pc EXCEPT ![w] = "idle"]
           /\ lv' = [lv EXCEPT ![w] = [NoLocals EXCEPT !.seen = lv[w].seen]]
    /\ UNCHANGED <<now, backend, pulls, mappings, locks, cache, op, holders,
                   lastEv, lockedAt, hist, calls>>

\* ------------------------------------------------------------ pull_model
\* pull_model(model_name, tag, target_instance); without a target the
\* instance comes from assign_model_to_least_loaded_instance.
PullCall(w, name, tag, target) ==
    /\ Begin(w, "pull", IF target = NoInstance THEN "as_keys" ELSE "lk_scan",
             [NoLocals EXCEPT !.model = FullName(name, tag), !.inst = target])
    /\ UNCHANGED <<now, backend, pulls, mappings, locks, cache, holders,
                   lastEv, lockedAt>>

StartPull(w) ==
    \E name \in Names, tag \in Tags, target \in Instances \cup {NoInstance} :
        PullCall(w, name, tag, target)

\* pull_model called with a target instance
StartPullOn(w) ==
    \E name \in Names, tag \in Tags, target \in Instances :
        PullCall(w, name, tag, target)

\* "pull_" .. ngx.time() .. "_" .. ngx.worker.id() .. "_" .. gsub(name)
PullId(t, w, name) == <<t, w, Sanitize(name)>>

\* the status record is written as "starting" and the POST /api/pull is
\* sent to the target instance
PullBegin(w) ==
    /\ pc[w] = "pl_begin"
    /\ LET id == PullId(now, w, lv[w].model)
           pull_status == [model |-> lv[w].model, instance |-> lv[w].inst,
                           status |-> "starting", progress |-> 0,
                           started_at |-> now, completed_at |-> 0,
                           error |-> FALSE, exp |-> now + StatusTTL]
       IN /\ pulls' = [k \in DOMAIN pulls \cup {id} |->
                         IF k = id THEN pull_status ELSE pulls[k]]
          /\ lv' = [lv EXCEPT ![w].pid = id, ![w].rec = pull_status]
    /\ hist' = [hist EXCEPT ![w].started = TRUE]
    /\ pc' = [pc EXCEPT ![w] = "pl_http"]
    /\ UNCHANGED <<now, backend, mappings, locks, cache, op, ret, holders,
                   lastEv, lockedAt, calls>>

\* the answer to POST /api/pull: status 200, or an error or another status
PullHttp(w) ==
    /\ pc[w] = "pl_http"
    /\ \E answered \in BOOLEAN :
        LET id == lv[w].pid
            pull_status ==
                IF answered
                THEN [lv[w].rec EXCEPT !.status = "in_progress",
                                       !.exp = now + StatusTTL]
                ELSE [lv[w].rec EXCEPT !.status = "failed", !.error = TRUE,
                                       !.completed_at = now,
                                       !.exp = now + StatusTTL]
        IN /\ pulls' = [k \in DOMAIN pulls \cup {id} |->
                          IF k = id THEN pull_status ELSE pulls[k]]
           /\ hist' = [hist EXCEPT ![w].answer = IF answered THEN "ok" ELSE "error"]
           /\ IF answered
              THEN Return(w, [Ret(TRUE, NoInstance) EXCEPT !.pid = id])
              ELSE /\ pc' = [pc EXCEPT ![w] = "pl_unlock"]
                   /\ lv' = [lv EXCEPT ![w].rec = pull_status]
                   /\ UNCHANGED ret
    /\ UNCHANGED <<now, backend, mappings, locks, cache, op, holders,
                   lastEv, lockedAt, calls>>

\* (variant: the failed start returns without releasing the lock)
PullUnlockKeepsLock(w) ==
    /\ pc[w] = "pl_unlock"
    /\ Return(w, [Ret(FALSE, NoInstance) EXCEPT !.pid = lv[w].pid])
    /\ UNCHANGED <<now, backend, pulls, mappings, op, calls, locks, cache,
                   holders, lastEv, lockedAt, hist>>

\* the failed start releases the loading lock
PullUnlock(w) ==
    /\ pc[w] = "pl_unlock"
    /\ Release(w, lv[w].model)
    /\ Return(w, [Ret(FALSE, NoInstance) EXCEPT !.pid = lv[w].pid])
    /\ UNCHANGED <<now, backend, pulls, mappings, op, calls>>

\* ------------------------------------------------------- get_pull_status
StartPoll(w) ==
    \E id \in DOMAIN pulls :
        /\ Begin(w, "poll", "gp_get",
                 [NoLocals EXCEPT !.model = pulls[id].model, !.pid = id])
        /\ UNCHANGED <<now, backend, pulls, mappings, locks, cache, holders,
                       lastEv, lockedAt>>

\* what get_pull_status returns with a status record
PollRet(status) == [Ret(TRUE, NoInstance) EXCEPT !.status = status.status]

\* (variant: completed without the progress)
CompletedNoProgress(status, t) ==
    [status EXCEPT !.status = "completed", !.completed_at = t,
                   !.exp = t + StatusTTL]

\* the record after the model was seen running
Completed(status, t) ==
    [status EXCEPT !.status = "completed", !.progress = 100,
                   !.completed_at = t, !.exp = t + StatusTTL]

\* the record after more than 30 minutes without the model running
TimedOut(status, t) ==
    [status EXCEPT !.status = "timeout", !.completed_at = t,
                   !.exp = t + StatusTTL]

Store(id, status) ==
    [k \in DOMAIN pulls \cup {id} |-> IF k = id THEN status ELSE pulls[k]]

\* (variant: the job times out at 1800 seconds)
PullTimedOutAt(elapsed) == elapsed >= PullTimeout

\* if elapsed > 1800
PullTimedOut(elapsed) == elapsed > PullTimeout

\* model_mappings:get(status_key); for a record in_progress the handler
\* enters is_model_running_on_any_instance(model) without force: a cache
\* older than its ttl is refreshed first, a fresh cache without the model
\* is refreshed with force, and a fresh cache that lists the model answers
\* at once, so that the record is stored as completed.
PollGet(w) ==
    /\ pc[w] = "gp_get"
    /\ LET id == lv[w].pid
       IN IF id \notin DOMAIN pulls
          THEN Return(w, Ret(FALSE, NoInstance)) /\ UNCHANGED pulls
          ELSE LET status == pulls[id]
                   stale == now - cache[w].timestamp > CacheTTL
                   cached == FirstRunning(cache[w].data, status.model)
               IN IF status.status # "in_progress"
                  THEN Return(w, PollRet(status)) /\ UNCHANGED pulls
                  ELSE IF ~stale /\ cached # NoInstance
                  THEN /\ pulls' = Store(id, Completed(status, now))
                       /\ lv' = [lv EXCEPT ![w].rec = Completed(status, now),
                                           ![w].model = status.model]
                       /\ pc' = [pc EXCEPT ![w] = "gp_unlock"]
                       /\ UNCHANGED ret
                  ELSE /\ lv' = [lv EXCEPT ![w].rec = status,
                                           ![w].model = status.model,
                                           ![w].forced = ~stale]
                       /\ pc' = [pc EXCEPT ![w] = "gp_scan"]
                       /\ UNCHANGED <<ret, pulls>>
    /\ UNCHANGED <<now, backend, mappings, locks, cache, op, holders,
                   lastEv, lockedAt, hist, calls>>

\* force_refresh_running_models_cache(), one instance per step.  After the
\* last answer: the model is listed, so the record is stored as completed;
\* or this was the refresh of a stale cache, and the second, forced refresh
\* follows; or the model is absent after the forced refresh, and the record
\* is stored as timeout when more than 1800 seconds have passed since
\* started_at, and returned as it is otherwise.
PollScan(w) ==
    /\ pc[w] = "gp_scan"
    /\ \E answered \in BOOLEAN :
        LET i == lv[w].idx + 1
            acc == PollInstance(lv[w].acc, i, answered)
            status == lv[w].rec
            running == FirstRunning(acc, lv[w].model)
            elapsed == now - status.started_at
        IN IF i < NumInstances
           THEN /\ lv' = [lv EXCEPT ![w].idx = i, ![w].acc = acc]
                /\ UNCHANGED <<cache, pc, hist, pulls, ret>>
           ELSE /\ cache' = [cache EXCEPT ![w] = Refreshed(cache[w], acc, now)]
                /\ hist' = [hist EXCEPT ![w].refreshes = @ + 1]
                /\ IF running # NoInstance
                   THEN /\ pulls' = Store(lv[w].pid, Completed(status, now))
                        /\ lv' = [lv EXCEPT ![w].idx = 0, ![w].acc = EmptyData,
                                            ![w].rec = Completed(status, now)]
                        /\ pc' = [pc EXCEPT ![w] = "gp_unlock"]
                        /\ UNCHANGED ret
                   ELSE IF ~lv[w].forced
                   THEN /\ lv' = [lv EXCEPT ![w].idx = 0, ![w].acc = EmptyData,
                                            ![w].forced = TRUE]
                        /\ UNCHANGED <<pc, pulls, ret>>
                   ELSE IF PullTimedOut(elapsed)
                   THEN /\ pulls' = Store(lv[w].pid, TimedOut(status, now))
                        /\ lv' = [lv EXCEPT ![w].idx = 0, ![w].acc = EmptyData,
                                            ![w].rec = TimedOut(status, now)]
                        /\ pc' = [pc EXCEPT ![w] = "gp_unlock"]
                        /\ UNCHANGED ret
                   ELSE Return(w, PollRet(status)) /\ UNCHANGED pulls
    /\ UNCHANGED <<now, backend, mappings, locks, op, holders, lastEv,
                   lockedAt, calls>>

\* an instance answers GET /api/ps with status 200 and JSON of another
\* shape: get_running_models raises inside the refresh, and the error ends
\* get_pull_status before the cache or the record is written
PollScanRaises(w) ==
    /\ pc[w] = "gp_scan"
    /\ Return(w, [Ret(FALSE, NoInstance) EXCEPT !.status = "error"])
    /\ UNCHANGED <<now, backend, pulls, mappings, locks, cache, op, holders,
                   lastEv, lockedAt, hist, calls>>

\* get_pull_status(id) asked once more by a client that polls without end
\* (calls counts the other handlers)
Repoll(w, id) ==
    /\ pc[w] = "idle"
    /\ id \in DOMAIN pulls
    /\ pc' = [pc EXCEPT ![w] = "gp_get"]
    /\ op' = [op EXCEPT ![w] = "poll"]
    /\ lv' = [lv EXCEPT ![w] =
                [NoLocals EXCEPT !.model = pulls[id].model, !.pid = id]]
    /\ ret' = [ret EXCEPT ![w] = NoRet]
    /\ hist' = [hist EXCEPT ![w] =
                  [NoHist EXCEPT !.startOwner = locks[pulls[id].model].owner]]
    /\ UNCHANGED <<now, backend, pulls, mappings, locks, cache, holders,
                   lastEv, lockedAt, calls>>

\* unlock_model_loading(model_name) after completed or timeout
PollUnlock(w) ==
    /\ pc[w] = "gp_unlock"
    /\ Release(w, lv[w].model)
    /\ Return(w, PollRet(lv[w].rec))
    /\ UNCHANGED <<now, backend, pulls, mappings, op, calls>>

\* ------------------------------------------------------ specifications
LockSteps(w) ==
    \/ LockScan(w) \/ LockAdd(w) \/ LockGet(w) \/ LockDel(w) \/ LockRetry(w)

\* The lock manager when no backend has the model loaded: every worker may
\* call lock_model_loading, unlock_model_loading and
\* refresh_model_loading_lock at any time, and the clock may pass a lease.
NextLock ==
    \/ LockTick
    \/ \E w \in Workers : StartLock(w)
    \/ \E w \in Workers : LockScan(w)
    \/ \E w \in Workers : LockAdd(w)
    \/ \E w \in Workers : LockGet(w)
    \/ \E w \in Workers : LockDel(w)
    \/ \E w \in Workers : LockRetry(w)
    \/ \E w \in Workers : StartUnlock(w)
    \/ \E w \in Workers : Unlock(w)
    \/ \E w \in Workers : StartRefresh(w)
    \/ \E w \in Workers : RefreshGet(w)
    \/ \E w \in Workers : RefreshSet(w)

SpecLock == Init /\ [][NextLock]_vars

\* The lock manager while backends load and unload the model.
NextRun ==
    \/ BackendLoad
    \/ BackendUnload
    \/ \E w \in Workers : StartLock(w)
    \/ \E w \in Workers : LockScan(w)
    \/ \E w \in Workers : SmGet1(w)
    \/ \E w \in Workers : SmGet2(w)
    \/ \E w \in Workers : SmSet(w)
    \/ \E w \in Workers : LockAdd(w)
    \/ \E w \in Workers : LockGet(w)
    \/ \E w \in Workers : LockDel(w)
    \/ \E w \in Workers : LockRetry(w)
    \/ \E w \in Workers : StartUnlock(w)
    \/ \E w \in Workers : Unlock(w)

SpecRun == Init /\ [][NextRun]_vars

\* Loaders that never release and never refresh: only lock_model_loading
\* calls and the clock.  A worker inside a handler keeps running (every
\* HTTP call has a timeout), hence the weak fairness of its steps.
NextLease ==
    \/ LockTick
    \/ \E w \in Workers : StartLock(w)
    \/ \E w \in Workers : LockScan(w)
    \/ \E w \in Workers : LockAdd(w)
    \/ \E w \in Workers : LockGet(w)
    \/ \E w \in Workers : LockDel(w)
    \/ \E w \in Workers : LockRetry(w)

SpecLease == Init /\ [][NextLease]_vars /\ \A w \in Workers : WF_vars(LockSteps(w))

\* The pull manager: every worker may call pull_model and get_pull_status
\* at any time while the backends finish loading models.
NextPull ==
    \/ BackendLoad
    \/ \E w \in Workers : StartPull(w)
    \/ \E w \in Workers : AssignKeys(w)
    \/ \E w \in Workers : AssignRead(w)
    \/ \E w \in Workers : SmGet1(w)
    \/ \E w \in Workers : SmGet2(w)
    \/ \E w \in Workers : SmSet(w)
    \/ \E w \in Workers : LockScan(w)
    \/ \E w \in Workers : LockAdd(w)
    \/ \E w \in Workers : LockGet(w)
    \/ \E w \in Workers : LockDel(w)
    \/ \E w \in Workers : LockRetry(w)
    \/ \E w \in Workers : PullBegin(w)
    \/ \E w \in Workers : PullHttp(w)
    \/ \E w \in Workers : PullUnlock(w)
    \/ \E w \in Workers : StartPoll(w)
    \/ \E w \in Workers : PollGet(w)
    \/ \E w \in Workers : PollScan(w)
    \/ \E w \in Workers : PollUnlock(w)

SpecPull == Init /\ [][NextPull]_vars

\* Pull jobs over time: pull_model with a target and get_pull_status while
\* the clock passes the 30 minutes of a job that no backend completes.
NextPoll ==
    \/ PullTick
    \/ \E w \in Workers : StartPullOn(w)
    \/ \E w \in Workers : LockScan(w)
    \/ \E w \in Workers : LockAdd(w)
    \/ \E w \in Workers : LockGet(w)
    \/ \E w \in Workers : LockDel(w)
    \/ \E w \in Workers : LockRetry(w)
    \/ \E w \in Workers : PullBegin(w)
    \/ \E w \in Workers : PullHttp(w)
    \/ \E w \in Workers : PullUnlock(w)
    \/ \E w \in Workers : StartPoll(w)
    \/ \E w \in Workers : PollGet(w)
    \/ \E w \in Workers : PollScan(w)
    \/ \E w \in Workers : PollUnlock(w)

SpecPoll == Init /\ [][NextPoll]_vars

\* The mapping store: placements,
\* get_instance_for_model and check_and_fix_inconsistent_mappings by every
\* worker while the backends finish loading models.
NextMap ==
    \/ BackendLoad
    \/ \E w \in Workers : StartAssign(w)
    \/ \E w \in Workers : AssignKeys(w)
    \/ \E w \in Workers : AssignRead(w)
    \/ \E w \in Workers : SmGet1(w)
    \/ \E w \in Workers : SmGet2(w)
    \/ \E w \in Workers : SmSet(w)
    \/ \E w \in Workers : StartRoute(w)
    \/ \E w \in Workers : RouteGet(w)
    \/ \E w \in Workers : RouteScan(w)
    \/ \E w \in Workers : StartFix(w)
    \/ \E w \in Workers : FixScan(w)
    \/ \E w \in Workers : FixGet(w)
    \/ \E w \in Workers : FixDup(w)

SpecMap == Init /\ [][NextMap]_vars

\* get_all_models by every worker, with any answers of the instances.
NextTags ==
    \/ \E w \in Workers : StartTags(w)
    \/ \E w \in Workers : TagsScan(w)
    \/ \E w \in Workers : TagsSort(w)

SpecTags == Init /\ [][NextTags]_vars

\* extract_model_name on every request of Requests.
NextExtract == \E w \in Workers : Extract(w)

SpecExtract == InitExtract /\ [][NextExtract]_vars

\* Pull jobs that outlive the lease of their lock: pull_model with a
\* target and get_pull_status while the clock passes the hour of the lease.
NextLate ==
    \/ TickIn(LateTimes)
    \/ \E w \in Workers : StartPullOn(w)
    \/ \E w \in Workers : LockScan(w)
    \/ \E w \in Workers : LockAdd(w)
    \/ \E w \in Workers : LockGet(w)
    \/ \E w \in Workers : LockDel(w)
    \/ \E w \in Workers : LockRetry(w)
    \/ \E w \in Workers : PullBegin(w)
    \/ \E w \in Workers : PullHttp(w)
    \/ \E w \in Workers : PullUnlock(w)
    \/ \E w \in Workers : StartPoll(w)
    \/ \E w \in Workers : PollGet(w)
    \/ \E w \in Workers : PollScan(w)
    \/ \E w \in Workers : PollUnlock(w)

SpecLate == Init /\ [][NextLate]_vars

\* The clean-up of mappings beside pull jobs that placed, locked and
\* started models.
NextClean ==
    \/ BackendLoad
    \/ \E w \in Workers : StartPull(w)
    \/ \E w \in Workers : AssignKeys(w)
    \/ \E w \in Workers : AssignRead(w)
    \/ \E w \in Workers : SmGet1(w)
    \/ \E w \in Workers : SmGet2(w)
    \/ \E w \in Workers : SmSet(w)
    \/ \E w \in Workers : LockScan(w)
    \/ \E w \in Workers : LockAdd(w)
    \/ \E w \in Workers : LockGet(w)
    \/ \E w \in Workers : LockDel(w)
    \/ \E w \in Workers : LockRetry(w)
    \/ \E w \in Workers : PullBegin(w)
    \/ \E w \in Workers : PullHttp(w)
    \/ \E w \in Workers : PullUnlock(w)
    \/ \E w \in Workers : StartClean(w)
    \/ \E w \in Workers : CleanScan(w)
    \/ \E w \in Workers : CleanKeys(w)
    \/ \E w \in Workers : CleanDel(w)

SpecClean == Init /\ [][NextClean]_vars

\* the ids of the jobs that pull_model can start at the first time point
FirstPullIds == {PullId(100, w, m) : w \in Workers, m \in Models}

PullSteps(w) ==
    \/ LockSteps(w) \/ PullBegin(w) \/ PullHttp(w) \/ PullUnlock(w)

PollSteps(w) ==
    \/ PollGet(w) \/ PollScan(w) \/ PollScanRaises(w) \/ PollUnlock(w)

\* Pull jobs polled without end while the clock passes their 30 minutes
\* and the backends, which never come to run the model, answer in any way.  A worker inside a handler keeps
\* running (every HTTP call has a timeout), the clock goes on, and every
\* record is asked for again and again.
NextLive ==
    \/ TickIn(LiveTimes)
    \/ \E w \in Workers : StartPullOn(w)
    \/ \E w \in Workers : PullSteps(w)
    \/ \E w \in Workers : PollSteps(w)
    \/ \E w \in Workers, id \in FirstPullIds : Repoll(w, id)

SpecLive ==
    /\ Init /\ [][NextLive]_vars
    /\ WF_vars(TickIn(LiveTimes))
    /\ \A w \in Workers : WF_vars(PullSteps(w)) /\ WF_vars(PollSteps(w))
    /\ \A w \in Workers, id \in FirstPullIds : SF_vars(Repoll(w, id))

\* The presence check of every worker while models come and go on the
\* backends and the clock passes the 30 seconds of the cache.
NextIsRun ==
    \/ CacheTick
    \/ BackendLoad
    \/ BackendUnload
    \/ \E w \in Workers : StartIsRunning(w)
    \/ \E w \in Workers : IsRunCheck(w)
    \/ \E w \in Workers : IsRunScan(w)

SpecIsRun == Init /\ [][NextIsRun]_vars

\* get_running_models against backends with any set of loaded models and
\* any kind of response.
InitPs ==
    /\ now = 100
    /\ backend \in [Instances -> SUBSET Models]
    /\ mappings = [m \in Models |-> NoMapping]
    /\ locks = [m \in Models |-> NoLock]
    /\ pulls = <<>>
    /\ cache = [w \in Workers |-> [data |-> EmptyData, timestamp |-> 0]]
    /\ pc = [w \in Workers |-> "idle"]
    /\ op = [w \in Workers |-> "none"]
    /\ lv = [w \in Workers |-> NoLocals]
    /\ ret = [w \in Workers |-> NoRet]
    /\ holders = [m \in Models |-> {}]
    /\ lastEv = [m \in Models |-> "never"]
    /\ lockedAt = [m \in Models |-> 0]
    /\ hist = [w \in Workers |-> NoHist]
    /\ calls = 0

NextPs ==
    \/ \E w \in Workers : StartPs(w)
    \/ \E w \in Workers : PsScan(w)

SpecPs == InitPs /\ [][NextPs]_vars

\* The two reconciliations choose a target from the same running_models.
NextPick ==
    \/ \E w \in Workers : FixPick(w)
    \/ \E w \in Workers : UpdatePick(w)

SpecPick == InitPick /\ [][NextPick]_vars

\* The choice of the least loaded of three instances, for every tally.
NextSort == \E w \in Workers : AssignSort(w)

SpecSort == InitSort /\ [][NextSort]_vars

\* ------------------ placement of several models, one call after another
\* string.match(key, "^loading:"): the prefix of the lock keys,
\* lock_key = "loading:" .. model_name
IsLockKey(key) ==
    LET prefix == <<"l", "o", "a", "d", "i", "n", "g", ":">>
    IN /\ Len(key) >= Len(prefix)
       /\ SubSeq(key, 1, Len(prefix)) = prefix

\* The full model names pull_model(model_name, tag) places: the models
\* "m" and "loading", each with the tags "a", "e" and "l".
PlacedNames ==
    {FullName(n, t) : n \in {<<"m">>, <<"l", "o", "a", "d", "i", "n", "g">>},
                      t \in {<<"a">>, <<"e">>, <<"l">>}}

\* A store without keys, in a deployment of two or of three instances
\* (OLLAMA_INSTANCE_COUNT); the keys of mappings are the model names
\* placed so far.
InitBalance ==
    /\ now = 100
    /\ \E n \in {NumInstances, SortInstances} : backend = [i \in 1..n |-> {}]
    /\ mappings = <<>>
    /\ locks = [m \in Models |-> NoLock]
    /\ pulls = <<>>
    /\ cache = [w \in Workers |-> [data |-> EmptyData, timestamp |-> 0]]
    /\ lv = [w \in Workers |-> NoLocals]
    /\ pc = [w \in Workers |-> "idle"]
    /\ op = [w \in Workers |-> "none"]
    /\ ret = [w \in Workers |-> NoRet]
    /\ holders = [m \in Models |-> {}]
    /\ lastEv = [m \in Models |-> "never"]
    /\ lockedAt = [m \in Models |-> 0]
    /\ hist = [w \in Workers |-> NoHist]
    /\ calls = 0

\* assign_model_to_least_loaded_instance(model_name) for a name that was
\* not placed before, while no other call is under way: instance_counts
\* of get_instance_count() zeros and keys = model_mappings:get_keys().
StartPlace(w) ==
    /\ \A v \in Workers : pc[v] = "idle"
    /\ \E m \in PlacedNames \ DOMAIN mappings :
          lv' = [lv EXCEPT ![w] =
                   [NoLocals EXCEPT !.model = m, !.keys = DOMAIN mappings,
                                    !.counts = [i \in DOMAIN backend |-> 0]]]
    /\ pc' = [pc EXCEPT ![w] = "pl_read"]
    /\ op' = [op EXCEPT ![w] = "place"]
    /\ ret' = [ret EXCEPT ![w] = NoRet]
    /\ UNCHANGED <<now, backend, pulls, mappings, locks, cache, holders,
                   lastEv, lockedAt, hist, calls>>

\* one key of the loop: a key that begins with loading: is passed over,
\* any other is read with get_safe_instance_mapping and counted for its
\* instance.
PlaceRead(w) ==
    /\ pc[w] = "pl_read"
    /\ \E k \in lv[w].keys :
         LET instance == DecodedInstance("base64", mappings[k].instance)
             counted == ~IsLockKey(k) /\ instance \in DOMAIN lv[w].counts
         IN lv' = [lv EXCEPT ![w].keys = @ \ {k},
                             ![w].counts = IF counted
                                           THEN [@ EXCEPT ![instance] = @ + 1]
                                           ELSE @]
    /\ UNCHANGED <<now, backend, pulls, mappings, locks, cache, pc, op, ret,
                   holders, lastEv, lockedAt, hist, calls>>

\* after the last key: table.sort, least_loaded = instance_counts[1].instance
\* and set_model_mapping(model_name, least_loaded, false), which writes
\* the key of a name that has no mapping and invalidates the cache; the
\* instance is returned.
PlaceSet(w) ==
    /\ pc[w] = "pl_read"
    /\ lv[w].keys = {}
    /\ LET least_loaded == LeastLoaded(lv[w].counts)
           m == lv[w].model
       IN /\ mappings' = [k \in DOMAIN mappings \cup {m} |->
                            IF k = m
                            THEN [instance |-> least_loaded, running |-> FALSE]
                            ELSE mappings[k]]
          /\ ret' = [ret EXCEPT ![w] = Ret(TRUE, least_loaded)]
    /\ cache' = [cache EXCEPT ![w].timestamp = 0]
    /\ pc' = [pc EXCEPT ![w] = "idle"]
    /\ lv' = [lv EXCEPT ![w].counts = <<>>]
    /\ UNCHANGED <<now, backend, pulls, locks, op, holders, lastEv,
                   lockedAt, hist, calls>>

NextBalance ==
    \/ \E w \in Workers : StartPlace(w)
    \/ \E w \in Workers : PlaceRead(w)
    \/ \E w \in Workers : PlaceSet(w)

SpecBalance == InitBalance /\ [][NextBalance]_vars

\* ------------------------------------------------------------- properties
\* a direct lock_model_loading call of worker w returns in this step
LockCallReturns(w) == op[w] = "lock" /\ pc[w] # "idle" /\ pc'[w] = "idle"

\* the lease of the model's last lock write has run out
Lapsed(m) == lockedAt[m] # 0 /\ now > lockedAt[m] + LockTTL

\* C2: for every model, two callers are never both told acquired=true
\* unless the lock of the first was released (unlock_model_loading) or
\* expired in between.
C2_AtMostOneHolder == \A m \in Models : Cardinality(holders[m]) <= 1

\* C3: a lock_model_loading(M, B) call that starts while A holds M's lock,
\* with M running nowhere and no release, expiry or other change of the
\* lock during the call, returns acquired=false with owner A and does not
\* write the lock.
C3_SecondAcquireFails ==
    [][\A w \in Workers :
        (/\ LockCallReturns(w)
         /\ hist[w].startOwner # NoInstance
         /\ ~hist'[w].intf
         /\ lv[w].rinst = NoInstance)
        => /\ ret'[w] = Ret(FALSE, hist[w].startOwner)
           /\ ~hist'[w].wrote
           /\ locks' = locks
           /\ locks[lv[w].model].owner = hist[w].startOwner]_vars

C3_Witness ==
    \E w \in Workers :
        /\ pc[w] = "idle" /\ op[w] = "lock"
        /\ hist[w].startOwner # NoInstance /\ ~hist[w].intf
        /\ lv[w].inst # hist[w].startOwner
        /\ ret[w] = Ret(FALSE, hist[w].startOwner)
        /\ locks[lv[w].model].owner = hist[w].startOwner

\* C4: when the last event on M's lock key is an unlock_model_loading (no
\* acquirer since), a lock_model_loading(M, B) call with M running nowhere
\* returns acquired=true and B owns the lock.
C4_AcquireAfterRelease ==
    [][\A w \in Workers :
        (/\ LockCallReturns(w)
         /\ lastEv[lv[w].model] = "unlock"
         /\ lv[w].rinst = NoInstance)
        => /\ ret'[w].ok
           /\ locks'[lv[w].model] = [owner |-> lv[w].inst, exp |-> now + LockTTL]]_vars

C4_Witness ==
    \E w, v \in Workers :
        /\ v # w
        /\ pc[v] = "idle" /\ op[v] = "unlock" /\ hist[v].wrote
        /\ pc[w] = "idle" /\ op[w] = "lock" /\ ret[w].ok
        /\ lv[w].model = lv[v].model
        /\ hist[v].startOwner # lv[w].inst
        /\ locks[lv[w].model].owner = lv[w].inst

\* C6: refresh_model_loading_lock(M, I) goes on to the write, returns true
\* and sets the expiry to now + 3600 only when the lock it reads exists and
\* is owned by I; on any other reading it returns false in the same step
\* and writes nothing.
C6_RefreshOnlyByOwner ==
    [][\A w \in Workers :
        LET m == lv[w].model
            i == lv[w].inst
        IN /\ (pc[w] = "rf_get" /\ pc'[w] # "rf_get")
              => /\ locks' = locks
                 /\ IF Live(locks[m]) /\ locks[m].owner = i
                    THEN pc'[w] = "rf_set"
                    ELSE pc'[w] = "idle" /\ ~ret'[w].ok /\ ~hist'[w].wrote
           /\ (pc[w] = "rf_set" /\ pc'[w] # "rf_set")
              => /\ pc'[w] = "idle" /\ ret'[w].ok
                 /\ locks'[m] = [owner |-> i, exp |-> now + 3600]
           /\ (op[w] = "refresh" /\ pc[w] # "idle" /\ pc'[w] = "idle" /\ ret'[w].ok)
              => pc[w] = "rf_set"]_vars

C6_Witness ==
    \E w \in Workers :
        /\ pc[w] = "idle" /\ op[w] = "refresh" /\ ret[w].ok
        /\ now > 100
        /\ locks[lv[w].model] = [owner |-> lv[w].inst, exp |-> now + 3600]

\* C7: when the add fails and the get reads no owner, the handler deletes
\* the key and adds once more; a successful second add returns
\* acquired=true with the caller owning the lock, a failed one returns
\* acquired=false with no owner, and in both cases the handler returns.
C7_DeleteAndRetryOnce ==
    [][\A w \in Workers :
        LET m == lv[w].model
        IN /\ (pc[w] = "lk_get" /\ pc'[w] # "lk_get" /\ ~Live(locks[m]))
              => pc'[w] = "lk_del"
           /\ (pc[w] = "lk_del" /\ pc'[w] # "lk_del")
              => pc'[w] = "lk_retry" /\ ~Live(locks'[m])
           /\ (pc[w] = "lk_retry" /\ pc'[w] # "lk_retry")
              => /\ pc'[w] = "idle"
                 /\ IF Live(locks[m])
                    THEN ret'[w] = Ret(FALSE, NoInstance)
                         /\ locks' = locks
                    ELSE ret'[w].ok /\ locks'[m].owner = lv[w].inst]_vars

\* the hard failure: a direct call returned acquired=false without owner
C7_Witness ==
    \E w \in Workers :
        /\ pc[w] = "idle" /\ op[w] = "lock"
        /\ ~ret[w].ok /\ ret[w].owner = NoInstance
        /\ Live(locks[lv[w].model])

\* C9: with loaders that never release nor refresh, and the model running
\* nowhere, once the lease of M's lock has run out every lock_model_loading
\* call in progress for M leads to a state where a caller has acquired the
\* lock anew.
C9_LeaseRecovery ==
    \A w \in Workers : \A m \in Models :
        (pc[w] # "idle" /\ lv[w].model = m /\ Lapsed(m))
        ~> (\E v \in Workers :
               /\ pc[v] = "idle" /\ ret[v].ok
               /\ locks[m].owner = lv[v].inst
               /\ ~Lapsed(m))

C9_Witness ==
    \E u, v \in Workers :
        /\ u # v
        /\ pc[u] = "idle" /\ op[u] = "lock" /\ ret[u].ok
        /\ pc[v] = "idle" /\ op[v] = "lock" /\ ret[v].ok
        /\ lv[u].model = lv[v].model /\ lv[u].inst # lv[v].inst
        /\ now > 100 + LockTTL
        /\ locks[lv[v].model] = [owner |-> lv[v].inst, exp |-> now + LockTTL]

\* C5: the add of lock_model_loading is attempted only after the forced
\* refresh of this call, and only when that refresh shows the model running
\* nowhere; when the refresh shows M running, with R the first instance, the
\* call returns acquired=false with owner R, writes no lock key and leaves
\* the mapping M -> R, running=true (unless another worker rewrote M's
\* mapping during the call).
C5_RunningRefusesLock ==
    /\ [](\A w \in Workers :
            pc[w] \in {"lk_add", "lk_get", "lk_del", "lk_retry"}
            => /\ hist[w].refreshes >= 1
               /\ Len(cache[w].data[lv[w].model]) = 0)
    /\ [][\A w \in Workers :
            LET m == lv[w].model
            IN (LockCallReturns(w) /\ Len(cache[w].data[m]) > 0)
               => /\ ret'[w] = Ret(FALSE, cache[w].data[m][1])
                  /\ ~hist'[w].wrote
                  /\ locks' = locks
                  /\ (~hist'[w].mintf
                      => mappings'[m] = [instance |-> cache[w].data[m][1],
                                         running |-> TRUE])]_vars

C5_Witness ==
    \E w \in Workers :
        LET m == lv[w].model
        IN /\ pc[w] = "idle" /\ op[w] = "lock"
           /\ ~ret[w].ok /\ ret[w].owner # NoInstance
           /\ Len(cache[w].data[m]) > 0
           /\ ret[w].owner = cache[w].data[m][1]
           /\ mappings[m] = [instance |-> ret[w].owner, running |-> TRUE]
           /\ ~Live(locks[m])

\* the pull jobs of model m that are neither completed, failed nor timed out
ActivePulls(m) ==
    {id \in DOMAIN pulls : /\ pulls[id].model = m
                           /\ pulls[id].status \in {"starting", "in_progress"}}

\* C1: at any time at most one pull job per model is in status starting or
\* in_progress, whatever the interleaving of pull_model and get_pull_status.
C1_OneActivePull == \A m \in Models : Cardinality(ActivePulls(m)) <= 1

\* C8: pull_model writes the status record and sends the backend pull only
\* after lock_model_loading answered acquired=true.
C8_PullOnlyWithLock ==
    \A w \in Workers : pc[w] \in {"pl_begin", "pl_http"} => lv[w].acquired

\* the step of pull_model at which lock_model_loading learns the owner:
\* the get that reads a lock, or the end of set_model_mapping after the
\* forced refresh listed the model
FindsOwner(w) ==
    /\ op[w] = "pull"
    /\ \/ pc[w] = "lk_get" /\ Live(locks[lv[w].model])
       \/ pc[w] = "sm_set" /\ lv[w].rrun

FoundOwner(w) ==
    IF pc[w] = "lk_get" THEN locks[lv[w].model].owner ELSE lv[w].rinst

\* C10: when pull_model finds the model locked by a loader or running, it
\* returns at once with success=false and that owner as existing_loader,
\* having written no status record, sent no backend pull and written no
\* lock; the lock is as it was.
C10_ExistingLoaderRefused ==
    [][\A w \in Workers :
        (FindsOwner(w) /\ pc'[w] # pc[w])
        => /\ pc'[w] = "idle"
           /\ ret'[w] = Ret(FALSE, FoundOwner(w))
           /\ ~hist'[w].started
           /\ ~hist'[w].wrote
           /\ pulls' = pulls
           /\ locks' = locks]_vars

C10_Witness ==
    \E w \in Workers :
        LET m == lv[w].model
        IN /\ op[w] = "pull" /\ pc[w] = "idle"
           /\ ret[w] = Ret(FALSE, locks[m].owner)
           /\ Live(locks[m])
           /\ ActivePulls(m) # {}
           /\ \A i \in Instances : backend[i] = {}

\* C11: when POST /api/pull gets no answer or a status other than 200,
\* pull_model stores the job as failed with an error and completed_at,
\* deletes the model's loading lock and returns success=false with the
\* pull id; in the state it returns to, no lock exists for the model, so
\* that an add of the lock key would succeed.
C11_FailedStartReleases ==
    [][\A w \in Workers :
        LET m == lv[w].model
            id == lv[w].pid
        IN /\ (pc[w] = "pl_http" /\ hist'[w].answer = "error")
              => /\ pc'[w] = "pl_unlock"
                 /\ id \in DOMAIN pulls'
                 /\ pulls'[id].status = "failed"
                 /\ pulls'[id].error
                 /\ pulls'[id].completed_at = now
           /\ (pc[w] = "pl_unlock" /\ pc'[w] # "pl_unlock")
              => /\ pc'[w] = "idle"
                 /\ ~ret'[w].ok
                 /\ ret'[w].pid = id
                 /\ ~Live(locks'[m])]_vars

C11_Witness ==
    \E w \in Workers :
        /\ op[w] = "pull" /\ pc[w] = "idle"
        /\ hist[w].answer = "error"
        /\ ~ret[w].ok
        /\ ret[w].pid \in DOMAIN pulls
        /\ pulls[ret[w].pid].status = "failed"
        /\ ~Live(locks[lv[w].model])

\* the step of get_pull_status that ends a refresh of the running models
PollRefreshed(w) ==
    pc[w] = "gp_scan" /\ hist'[w].refreshes = hist[w].refreshes + 1

\* C12: a get_pull_status call on a job in_progress that sees the model
\* running (in its fresh cache, or in the refresh it makes) stores the job
\* as completed with progress 100 and completed_at, then deletes the
\* model's loading lock and reports completed.
C12_RunningCompletes ==
    [][\A w \in Workers :
        LET m == lv[w].model
            id == lv[w].pid
            done == /\ pc'[w] = "gp_unlock"
                    /\ pulls'[id].status = "completed"
                    /\ pulls'[id].progress = 100
                    /\ pulls'[id].completed_at = now
                    /\ lv'[w].rec = pulls'[id]
        IN /\ (/\ pc[w] = "gp_get" /\ pc'[w] # "gp_get"
               /\ id \in DOMAIN pulls /\ pulls[id].status = "in_progress"
               /\ now - cache[w].timestamp <= CacheTTL
               /\ FirstRunning(cache[w].data, m) # NoInstance)
              => done
           /\ (PollRefreshed(w) /\ FirstRunning(cache'[w].data, m) # NoInstance)
              => done
           /\ (pc[w] = "gp_unlock" /\ pc'[w] # "gp_unlock"
               /\ lv[w].rec.status = "completed")
              => /\ pc'[w] = "idle"
                 /\ ret'[w].status = "completed"
                 /\ ~Live(locks'[m])]_vars

C12_Witness ==
    \E w \in Workers :
        /\ op[w] = "poll" /\ pc[w] = "idle"
        /\ ret[w].status = "completed"
        /\ lv[w].pid \in DOMAIN pulls
        /\ pulls[lv[w].pid].status = "completed"
        /\ pulls[lv[w].pid].progress = 100
        /\ pulls[lv[w].pid].completed_at = now
        /\ \E i \in Instances : lv[w].model \in backend[i]
        /\ ~Live(locks[lv[w].model])

\* C13: a get_pull_status call on a job in_progress that does not see the
\* model running stores the job as timeout with completed_at and deletes
\* the model's lock when now - started_at > 1800; when now - started_at is
\* 1800 or less it returns the job in_progress and writes neither the
\* record nor the lock.
C13_TimeoutAfter1800 ==
    [][\A w \in Workers :
        LET m == lv[w].model
            id == lv[w].pid
        IN /\ (/\ PollRefreshed(w) /\ lv[w].forced
               /\ FirstRunning(cache'[w].data, m) = NoInstance)
              => IF now - lv[w].rec.started_at > 1800
                 THEN /\ pc'[w] = "gp_unlock"
                      /\ pulls'[id].status = "timeout"
                      /\ pulls'[id].completed_at = now
                 ELSE /\ pc'[w] = "idle"
                      /\ ret'[w].status = "in_progress"
                      /\ pulls' = pulls
                      /\ locks' = locks
           /\ (pc[w] = "gp_unlock" /\ pc'[w] # "gp_unlock"
               /\ lv[w].rec.status = "timeout")
              => /\ pc'[w] = "idle"
                 /\ ret'[w].status = "timeout"
                 /\ ~Live(locks'[m])]_vars

C13_Witness ==
    \E w \in Workers :
        /\ op[w] = "poll" /\ pc[w] = "idle"
        /\ ret[w].status = "timeout"
        /\ lv[w].pid \in DOMAIN pulls
        /\ pulls[lv[w].pid].status = "timeout"
        /\ pulls[lv[w].pid].completed_at = pulls[lv[w].pid].started_at + 1801
        /\ ~Live(locks[lv[w].model])

\* the order of the statuses of a pull job
Rank(status) ==
    IF status = "starting" THEN 0 ELSE IF status = "in_progress" THEN 1 ELSE 2

\* C14: the stored status of a pull record only moves forward,
\* starting -> in_progress -> {completed, failed, timeout}, and a record
\* that is completed, failed or timeout keeps that status.
C14_StatusForward ==
    [][\A id \in DOMAIN pulls \cap DOMAIN pulls' :
        \/ pulls'[id].status = pulls[id].status
        \/ Rank(pulls[id].status) < Rank(pulls'[id].status)]_vars

\* C15: get_instance_for_model returns no instance for a model that no
\* backend has ever run (backends only load models here, so a model that
\* runs nowhere now has never been running).
C15_NoInstanceUnlessRunning ==
    \A w \in Workers :
        (op[w] = "route" /\ pc[w] = "idle"
           /\ \A i \in Instances : lv[w].model \notin backend[i])
        => ret[w].owner = NoInstance

\* the step of worker w that leaves the write of set_model_mapping
SetStep(w) == pc[w] = "sm_set" /\ pc'[w] # "sm_set"

\* C16: a set_model_mapping whose (instance, running) pair is the stored
\* one, undisturbed by other writers, writes nothing: the mapping stays
\* and the caller's running-models cache is left as it was.
C16_IdenticalWriteIsNoOp ==
    [][\A w \in Workers :
         (SetStep(w) /\ ~hist[w].mintf
            /\ mappings[lv[w].model] =
                 [instance |-> lv[w].rinst, running |-> lv[w].rrun])
         => /\ mappings' = mappings
            /\ cache' = cache
            /\ hist'[w].mapped = "kept"]_vars

\* lock_model_loading found the model running on the instance already
\* recorded: set_model_mapping wrote nothing and the fresh cache survived
C16_Witness ==
    \E w \in Workers :
        /\ op[w] = "lock" /\ pc[w] = "idle" /\ ~ret[w].ok
        /\ hist[w].mapped = "kept" /\ ~hist[w].mintf
        /\ mappings[lv[w].model] = [instance |-> ret[w].owner, running |-> TRUE]
        /\ cache[w].timestamp = now

\* C17: whenever a mapping record changes, the running-models cache of
\* every worker is invalid afterwards, so the next presence check of any
\* worker polls the backends again.
C17_ChangeInvalidatesCache ==
    [][mappings' # mappings
         => \A v \in Workers : now' - cache'[v].timestamp > CacheTTL]_vars

\* C18: the instance chosen by the placement has the least count of all
\* instances, and of the instances with the least count it is the one of
\* lowest index.
C18_LeastLoadedLowestIndex ==
    \A w \in Workers :
        pc[w] = "as_sorted"
        => LET counts == lv[w].counts
               chosen == lv[w].rinst
           IN /\ chosen \in DOMAIN counts
              /\ \A i \in DOMAIN counts : counts[chosen] <= counts[i]
              /\ \A i \in DOMAIN counts :
                    counts[i] = counts[chosen] => chosen <= i

Extracted(w) == op[w] = "extract" /\ pc[w] = "idle"

C23_PathTemplates ==
    \A w \in Workers :
        (Extracted(w) /\ lv[w].req.body.kind = "none")
        => LET req == lv[w].req
           IN /\ req.path \in {<<"chat", "U">>, <<"embeddings", "U">>,
                               <<"api", "chat", "U">>,
                               <<"api", "embeddings", "U">>,
                               <<"v1", "models", "U">>}
                   => ret[w].name = <<"U">>
              /\ (req.path = <<"api", "generate">> /\ QueryModel(req) # Nil)
                   => ret[w].name = QueryModel(req)

\* C24: get_all_models returns one entry for each name that some instance
\* listed, with the instances that listed it, in ascending order of the
\* names; an instance that gave no usable answer contributes nothing and
\* makes success false.
C24_AllModels ==
    \A w \in Workers :
        (op[w] = "tags" /\ pc[w] = "idle" /\ ret[w].status # "error")
        => LET seen == lv[w].seen
               models == ret[w].models
               holds(n) == {i \in Instances : seen[i].kind = "list"
                                                /\ n \in seen[i].names}
           IN /\ Len(seen) = NumInstances
              /\ {models[k].name : k \in DOMAIN models}
                   = {n \in TagNames : holds(n) # {}}
              /\ \A j, k \in DOMAIN models :
                    j < k => NameLess(models[j].name, models[k].name)
              /\ \A k \in DOMAIN models :
                    LET inst == models[k].instances
                    IN /\ {inst[j] : j \in DOMAIN inst} = holds(models[k].name)
                       /\ Len(inst) = Cardinality(holds(models[k].name))
              /\ ret[w].ok <=> \A i \in Instances : seen[i].kind = "list"

\* instance 1 did not answer and instance 2 listed three models: they are
\* all returned, in order, with success false
C24_Witness ==
    \E w \in Workers :
        /\ op[w] = "tags" /\ pc[w] = "idle" /\ ~ret[w].ok
        /\ Len(lv[w].seen) = NumInstances
        /\ lv[w].seen[1].kind = "fail"
        /\ lv[w].seen[2].names = TagNames
        /\ Len(ret[w].models) = 3
        /\ ret[w].models[1].name = <<"a">>
        /\ ret[w].models[3].instances = <<2>>

\* C25: when get_instance_for_model answers from a stored mapping while
\* the model is running on some instance, the instance it returns is one
\* the model is running on.
C25_RoutesToRunning ==
    [][\A w \in Workers :
         (/\ op[w] = "route" /\ pc[w] = "gi_get" /\ pc'[w] = "idle"
          /\ \E i \in Instances : lv[w].model \in backend[i])
         => /\ ret'[w].owner \in Instances
            /\ lv[w].model \in backend[ret'[w].owner]]_vars

\* C26: get_instance_for_model without a stored mapping makes one forced
\* refresh.  When the refresh lists the model, the call (undisturbed by
\* other writers) returns an instance of that list and leaves the mapping
\* at that instance with running = true; when it does not, the call
\* returns nil and the store is as it was.
C26_RouteWithoutMapping ==
    [][\A w \in Workers :
         (op[w] = "route" /\ pc[w] \in {"gi_scan", "sm_set"} /\ pc'[w] = "idle")
         => LET m == lv[w].model
                listed == cache'[w].data[m]
            IN /\ hist'[w].refreshes = 1
               /\ pc[w] = "gi_scan"
                    => /\ listed = <<>>
                       /\ ~ret'[w].ok /\ ret'[w].owner = NoInstance
                       /\ mappings' = mappings /\ locks' = locks
                       /\ pulls' = pulls
               /\ (pc[w] = "sm_set" /\ ~hist'[w].mintf)
                    => /\ \E j \in DOMAIN listed : listed[j] = ret'[w].owner
                       /\ mappings'[m] =
                            [instance |-> ret'[w].owner, running |-> TRUE]
                       /\ locks' = locks /\ pulls' = pulls]_vars

\* a model without mapping was found running, returned and mapped
C26_Witness ==
    \E w \in Workers :
        /\ op[w] = "route" /\ pc[w] = "idle" /\ ret[w].ok
        /\ hist[w].refreshes = 1 /\ hist[w].mapped = "written"
        /\ ~hist[w].mintf
        /\ mappings[lv[w].model] = [instance |-> ret[w].owner, running |-> TRUE]

\* C27: the write of a least-loaded placement (the only one that stores
\* running = false) leaves the mapping of a model alone when the model is
\* already mapped, being loaded under a lock, or running on an instance.
C27_PlacementFirstTimeOnly ==
    [][\A w \in Workers :
         LET m == lv[w].model
         IN (/\ SetStep(w) /\ op[w] \in {"assign", "pull"} /\ ~lv[w].rrun
             /\ \/ mappings[m].instance # NoInstance
                \/ Live(locks[m])
                \/ \E i \in Instances : m \in backend[i])
            => mappings'[m] = mappings[m]]_vars

C29_SameTarget ==
    (pc[1] = "picked" /\ pc[2] = "picked") => lv[1].rinst = lv[2].rinst

\* C30: no step of check_and_fix_inconsistent_mappings changes the mapping
\* of a model that its snapshot shows on no instance, nor, undisturbed by
\* other writers, of a model whose mapped instance is in its snapshot; and
\* the closing detect_duplicate_model_instances reports exactly the models
\* of the snapshot on more than one instance and changes no mapping, lock,
\* pull record, cache or backend.
C30_LeavesConsistentAlone ==
    [][\A w \in Workers :
         (op[w] = "fix" /\ (pc'[w] # pc[w] \/ lv'[w] # lv[w]))
         => /\ \A m \in Models :
                  (\/ Len(lv[w].acc[m]) = 0
                   \/ /\ ~hist[w].mintf
                      /\ \E j \in DOMAIN lv[w].acc[m] :
                            lv[w].acc[m][j] = mappings[m].instance)
                  => mappings'[m] = mappings[m]
            /\ pc[w] = "cf_dup"
                  => /\ UNCHANGED <<mappings, locks, pulls, backend, cache>>
                     /\ ret'[w].dups = {m \in Models : Len(lv[w].acc[m]) >= 2}
                     /\ ret'[w].count = lv[w].fixed]_vars

\* a reconciliation returned that found the model on both instances,
\* reported it, and left its mapping (instance 2, running = false or true
\* as it was) alone
C30_Witness ==
    \E w \in Workers, m \in Models :
        /\ op[w] = "fix" /\ pc[w] = "idle" /\ ~hist[w].mintf
        /\ ret[w].dups = {m} /\ ret[w].count = 0
        /\ mappings[m].instance = 2
        /\ mappings[m] = lv[w].map0[m]

\* the running_models that the reports of one refresh amount to: each
\* model on the instances that listed it, in index order
Aggregation(reports) ==
    [m \in Models |->
        RunningInstances({i \in DOMAIN reports : m \in reports[i]})]

\* C31: a refresh of the cache leaves in it exactly the aggregation of what
\* the instances reported during that refresh, with the time of the
\* refresh: nothing of the previous snapshot stays.
C31_RefreshReplaces ==
    [][\A w \in Workers :
         (pc[w] = "ir_scan" /\ hist'[w].refreshes = hist[w].refreshes + 1)
         => /\ Len(hist'[w].reports) = NumInstances
            /\ cache'[w].data = Aggregation(hist'[w].reports)
            /\ cache'[w].timestamp = now]_vars

\* a presence check refreshed a cache that listed the model while
\* instance 1, which still runs it, did not answer: the model is out of the
\* cache
C31_Witness ==
    \E w \in Workers, m \in Models :
        /\ op[w] = "isrun" /\ pc[w] = "idle" /\ hist[w].dropped
        /\ m \in backend[1] /\ m \notin backend[2]
        /\ Len(hist[w].reports) = NumInstances
        /\ hist[w].reports[1] = {}
        /\ cache[w].data[m] = <<>>

\* C32: a pull job that starts gets an id no earlier job has: the record
\* that pull_model writes as "starting" never takes the place of the
\* record of another job.
C32_PullIdsUnique ==
    [][\A id \in DOMAIN pulls \cap DOMAIN pulls' :
         pulls'[id].status = "starting" => pulls[id].status = "starting"]_vars

\* C33: a JSON body without model and with name gives that name only on
\* the generate endpoint; on every other endpoint the name field has no
\* part in the result, which is that of the same request without it.
C33_NameOnlyOnGenerate ==
    \A w \in Workers :
        (/\ Extracted(w)
         /\ lv[w].req.body.kind = "json"
         /\ lv[w].req.body.model = Nil
         /\ lv[w].req.body.name # Nil)
        => LET req == lv[w].req
               generate == req.path = <<"api", "generate">>
           IN /\ ret[w].name = req.body.name => generate
              /\ ~generate
                   => ret[w].name = ExtractModelName([req EXCEPT !.body.name = Nil])

\* a POST to /api/tags?model=Q whose JSON body has only a name gave Q
C33_Witness ==
    \E w \in Workers :
        /\ Extracted(w)
        /\ lv[w].req.method = "POST"
        /\ lv[w].req.body = [kind |-> "json", model |-> Nil, name |-> <<"Bn">>,
                             msg |-> Nil, par |-> Nil]
        /\ lv[w].req.path = <<"api", "tags">>
        /\ lv[w].req.query = <<Param("model", "Q")>>
        /\ ret[w].name = <<"Q">>

\* the body, the url patterns and the query parameter give no model
NoEarlierSource(req) ==
    /\ req.body.kind = "none"
       \/ /\ req.body.model = Nil /\ req.body.name = Nil
          /\ req.body.msg = Nil /\ req.body.par = Nil
    /\ UrlPatterns(req) = Nil
    /\ QueryModel(req) = Nil

C35_ReleasesOwnLock ==
    [][\A w \in Workers :
         (op[w] = "poll" /\ pc[w] = "gp_unlock" /\ pc'[w] = "idle")
         => LET m == lv[w].model
            IN Live(locks[m]) => lockedAt[m] <= lv[w].rec.started_at]_vars

\* C36: clean_non_running_mappings changes no lock and no pull-status
\* record, removes only mappings of models its snapshot shows on no
\* instance, and counts exactly the mapping records it removes.
C36_CleanOnlyMappings ==
    [][\A w \in Workers :
         (op[w] = "clean" /\ pc[w] = "cl_del" /\ lv'[w] # lv[w])
         => LET removed == {m \in Models : /\ mappings[m] # NoMapping
                                            /\ mappings'[m] = NoMapping}
                counted == IF pc'[w] = "idle" THEN ret'[w].count
                           ELSE lv'[w].fixed
            IN /\ locks' = locks
               /\ pulls' = pulls
               /\ \A m \in Models : lv[w].acc[m] # <<>> => mappings'[m] = mappings[m]
               /\ counted = lv[w].fixed + Cardinality(removed)]_vars

\* C37: a job whose record is polled again and again reaches completed,
\* failed or timeout (stated for the jobs started at the first time point,
\* whose 30 minutes the clock passes).
C37_PullTerminates ==
    \A id \in FirstPullIds :
        (id \in DOMAIN pulls /\ pulls[id].status \in {"starting", "in_progress"})
        ~> (id \in DOMAIN pulls
              /\ pulls[id].status \in {"completed", "failed", "timeout"})

\* C38: the write of refresh_model_loading_lock(M, I) finds M's lock in
\* place and owned by I: it neither takes over the lock of another
\* instance nor creates a lock where there is none.
C38_RefreshKeepsOwner ==
    [][\A w \in Workers :
         (op[w] = "refresh" /\ pc[w] = "rf_set" /\ pc'[w] # "rf_set")
         => LET m == lv[w].model
            IN Live(locks[m]) /\ locks[m].owner = lv[w].inst]_vars

\* The number of stored mappings that name instance i.
MappedTo(i) ==
    Cardinality({k \in DOMAIN mappings : mappings[k].instance = i})

\* C39: starting from a store without mappings, after any sequence of
\* calls of assign_model_to_least_loaded_instance, one after another and
\* for distinct model names, the numbers of models mapped to any two
\* configured instances differ by at most 1.
C39_BalancedPlacement ==
    (\A w \in Workers : pc[w] = "idle")
    => \A i, j \in DOMAIN backend : MappedTo(i) - MappedTo(j) <= 1

\* C21: a forced presence check refreshes the cache exactly once and
\* answers from that refresh.  An unforced check answers from a cache that
\* is not expired and lists the model, without any refresh; when the cache
\* it consults (refreshed first if expired) does not list the model it
\* makes exactly one more refresh, and answers not-running only if that
\* refresh does not list the model either.
C21_PresenceCheck ==
    [][\A w \in Workers :
         (op[w] = "isrun" /\ pc[w] # "idle" /\ pc'[w] = "idle")
         => LET m == lv[w].model
                n == hist'[w].refreshes
                fresh == FirstRunning(cache'[w].data, m)
            IN /\ ret'[w].owner = fresh
               /\ ret'[w].ok <=> fresh # NoInstance
               /\ lv[w].force => n = 1 /\ cache'[w].timestamp = now
               /\ (~lv[w].force /\ pc[w] = "ir_check")
                    => /\ n = 0 /\ cache' = cache
                       /\ now - cache[w].timestamp <= CacheTTL
                       /\ fresh # NoInstance
               /\ (~lv[w].force /\ pc[w] = "ir_scan")
                    => /\ cache'[w].timestamp = now
                       /\ n = IF lv[w].expired
                              THEN (IF lv[w].forced THEN 2 ELSE 1)
                              ELSE 1
                       /\ ~ret'[w].ok => n = IF lv[w].expired THEN 2 ELSE 1]_vars

\* an unforced check found a fresh cache without the model, refreshed once
\* more and answered not-running
C21_Witness ==
    \E w \in Workers :
        /\ op[w] = "isrun" /\ pc[w] = "idle" /\ ~lv[w].force
        /\ ~ret[w].ok /\ hist[w].refreshes = 1
        /\ cache[w].timestamp = now

\* C20: get_running_models never aborts, and its result lists a model on
\* an instance exactly when that instance answered with its list of loaded
\* models and the model is on it; instances that failed, answered another
\* status or sent a malformed body contribute nothing.
C20_AggregationTolerant ==
    \A w \in Workers :
        (op[w] = "ps" /\ pc[w] = "idle")
        => /\ ret[w].status # "error"
           /\ Len(lv[w].seen) = NumInstances
           /\ \A m \in Models, i \in Instances :
                 (\E j \in DOMAIN ret[w].data[m] : ret[w].data[m][j] = i)
                 <=> (lv[w].seen[i] = "list" /\ m \in backend[i])

TypeOK ==
    /\ now \in LockTimes \cup PullTimes \cup CacheTimes \cup LateTimes
    /\ \A m \in Models : locks[m].owner \in Instances \cup {NoInstance}

====
